---- MODULE Spec2Model ----
(***************************************************************************)
(* A model of the BSON crate's value deserialization bridge, raw array     *)
(* view and raw value encoder.                                             *)
(*                                                                         *)
(* Representation.  A Rust String / &str is the sequence of its UTF-8      *)
(* bytes (numbers 0..255).  Integers wider than 31 bits (u32, u64, i64)    *)
(* are little-endian byte sequences, because the checker's integers are    *)
(* 32-bit; i32 values are ordinary integers.  Option<T> is <<>> for None   *)
(* and <<x>> for Some(x).  Result<T, E> is [ok |-> TRUE, val |-> x] or     *)
(* [ok |-> FALSE, err |-> e].                                              *)
(***************************************************************************)
EXTENDS Integers, Sequences, FiniteSets, TLC

VARIABLES
    input,  \* the arguments of the operation under examination
    op,     \* the operation that produced out ("init" before any call)
    out     \* what the operation returned

vars == <<input, op, out>>

----------------------------------------------------------------------------
(* Option and Result *)

None == <<>>
Some(x) == <<x>>
IsSome(o) == o # <<>>
Unwrap(o) == o[1]

Ok(x) == [ok |-> TRUE, val |-> x]
Err(e) == [ok |-> FALSE, err |-> e]

NoOut == [ok |-> FALSE, err |-> [kind |-> "no_call"]]

----------------------------------------------------------------------------
(* Little-endian byte arithmetic *)

Byte == 0..255

RECURSIVE ZeroBytes(_)
ZeroBytes(n) == IF n = 0 THEN <<>> ELSE <<0>> \o ZeroBytes(n - 1)

\* `value as u64` for an unsigned value of 1, 2, 4 or 8 bytes: zero extension
AsU64(b) == b \o ZeroBytes(8 - Len(b))

\* i32::to_le_bytes: two's complement, 4 bytes
I32ToLeBytes(i) ==
    LET lo == IF i >= 0 THEN i ELSE i + 2147483647 + 1   \* low 31 bits
        top == IF i >= 0 THEN 0 ELSE 128
    IN  << lo % 256,
           (lo \div 256) % 256,
           (lo \div 65536) % 256,
           ((lo \div 16777216) % 128) + top >>

\* i32::from_le_bytes
I32FromLeBytes(b) ==
    LET lo == b[1] + 256 * b[2] + 65536 * b[3] + 16777216 * (b[4] % 128)
    IN  IF b[4] >= 128 THEN (lo - 2147483647) - 1 ELSE lo

\* a < b for unsigned little-endian numbers of the same length
RECURSIVE LtU(_, _)
LtU(a, b) ==
    IF Len(a) = 0 THEN FALSE
    ELSE LET n == Len(a)
         IN  IF a[n] # b[n] THEN a[n] < b[n]
             ELSE LtU(SubSeq(a, 1, n - 1), SubSeq(b, 1, n - 1))

LeU(a, b) == a = b \/ LtU(a, b)

----------------------------------------------------------------------------
(* The generic value tree (enum Bson) and the borrowed tagged value        *)
(* (enum RawBsonRef).  Both are records tagged by field t.                 *)

BInt32(i) == [t |-> "Int32", v |-> i]
BInt64(b) == [t |-> "Int64", v |-> b]          \* 8 little-endian bytes
BDouble(b) == [t |-> "Double", v |-> b]        \* 8 little-endian bytes
BString(s) == [t |-> "String", v |-> s]
BBoolean(b) == [t |-> "Boolean", v |-> b]
BNull == [t |-> "Null"]
BArray(a) == [t |-> "Array", v |-> a]
BDocument(d) == [t |-> "Document", v |-> d]    \* sequence of [k, v] entries
BBinary(st, bytes) == [t |-> "Binary", subtype |-> st, bytes |-> bytes]

\* enum BsonInteger
BsonIntegerInt32(i) == [t |-> "Int32", v |-> i]
BsonIntegerInt64(b) == [t |-> "Int64", v |-> b]

----------------------------------------------------------------------------
(* Strings used by the code, as UTF-8 bytes *)

\* the string literals of the code and of the documents below, by name
Str ==
    [ oid |-> <<36, 111, 105, 100>>,   \* "$oid"
      symbol |-> <<36, 115, 121, 109, 98, 111, 108>>,   \* "$symbol"
      numberInt |-> <<36, 110, 117, 109, 98, 101, 114, 73, 110, 116>>,   \* "$numberInt"
      numberLong |-> <<36, 110, 117, 109, 98, 101, 114, 76, 111, 110, 103>>,   \* "$numberLong"
      numberDouble |-> <<36, 110, 117, 109, 98, 101, 114, 68, 111, 117, 98, 108, 101>>,   \* "$numberDouble"
      binary |-> <<36, 98, 105, 110, 97, 114, 121>>,   \* "$binary"
      uuid |-> <<36, 117, 117, 105, 100>>,   \* "$uuid"
      code |-> <<36, 99, 111, 100, 101>>,   \* "$code"
      scope |-> <<36, 115, 99, 111, 112, 101>>,   \* "$scope"
      timestamp |-> <<36, 116, 105, 109, 101, 115, 116, 97, 109, 112>>,   \* "$timestamp"
      regularExpression |-> <<36, 114, 101, 103, 117, 108, 97, 114, 69, 120, 112, 114, 101, 115, 115, 105, 111, 110>>,   \* "$regularExpression"
      dbPointer |-> <<36, 100, 98, 80, 111, 105, 110, 116, 101, 114>>,   \* "$dbPointer"
      date |-> <<36, 100, 97, 116, 101>>,   \* "$date"
      maxKey |-> <<36, 109, 97, 120, 75, 101, 121>>,   \* "$maxKey"
      minKey |-> <<36, 109, 105, 110, 75, 101, 121>>,   \* "$minKey"
      undefined |-> <<36, 117, 110, 100, 101, 102, 105, 110, 101, 100>>,   \* "$undefined"
      numberDecimal |-> <<36, 110, 117, 109, 98, 101, 114, 68, 101, 99, 105, 109, 97, 108>>,   \* "$numberDecimal"
      numberDecimalBytes |-> <<36, 110, 117, 109, 98, 101, 114, 68, 101, 99, 105, 109, 97, 108, 66, 121, 116, 101, 115>>,   \* "$numberDecimalBytes"
      base64 |-> <<98, 97, 115, 101, 54, 52>>,   \* "base64"
      subType |-> <<115, 117, 98, 84, 121, 112, 101>>,   \* "subType"
      bytes |-> <<98, 121, 116, 101, 115>>,   \* "bytes"
      t |-> <<116>>,   \* "t"
      i |-> <<105>>,   \* "i"
      pattern |-> <<112, 97, 116, 116, 101, 114, 110>>,   \* "pattern"
      options |-> <<111, 112, 116, 105, 111, 110, 115>>,   \* "options"
      ref |-> <<36, 114, 101, 102>>,   \* "$ref"
      id |-> <<36, 105, 100>>,   \* "$id"
      Infinity |-> <<73, 110, 102, 105, 110, 105, 116, 121>>,   \* "Infinity"
      NegInfinity |-> <<45, 73, 110, 102, 105, 110, 105, 116, 121>>,   \* "-Infinity"
      NaN |-> <<78, 97, 78>>,   \* "NaN"
      a |-> <<97>>,   \* "a"
      b |-> <<98>>,   \* "b"
      oidish |-> <<36, 111, 105, 100, 105, 115, 104>>,   \* "$oidish"
      foo |-> <<102, 111, 111>>,   \* "foo"
      bar |-> <<98, 97, 114>>,   \* "bar"
      s12 |-> <<49, 50>>,   \* "12"
      xi |-> <<120, 105>>,   \* "xi"
      Zm9v |-> <<90, 109, 57, 118>>,   \* "Zm9v", the base64 of "foo"
      s00 |-> <<48, 48>>   \* "00"
    ]

----------------------------------------------------------------------------
(* Binary subtypes, by their byte value *)

\* enum BinarySubtype, by its byte
BinarySubtype ==
    [ Generic |-> 0, Function |-> 1, BinaryOld |-> 2, UuidOld |-> 3, Uuid |-> 4,
      Md5 |-> 5, Encrypted |-> 6, Column |-> 7, UserDefined |-> 128 ]

----------------------------------------------------------------------------
(* The remaining variants of Bson *)

BObjectId(bytes) == [t |-> "ObjectId", v |-> bytes]            \* 12 bytes
BDateTime(b) == [t |-> "DateTime", v |-> b]                    \* i64 millis, 8 bytes
BSymbol(s) == [t |-> "Symbol", v |-> s]
BJavaScriptCode(s) == [t |-> "JavaScriptCode", v |-> s]
BJavaScriptCodeWithScope(code, scope) ==
    [t |-> "JavaScriptCodeWithScope", code |-> code, scope |-> scope]
BRegularExpression(pattern, options) ==
    [t |-> "RegularExpression", pattern |-> pattern, options |-> options]
BTimestamp(time, increment) ==                                 \* two u32, 4 bytes each
    [t |-> "Timestamp", time |-> time, increment |-> increment]
BDecimal128(bytes) == [t |-> "Decimal128", v |-> bytes]        \* 16 bytes
BDbPointer(namespace, id) == [t |-> "DbPointer", namespace |-> namespace, id |-> id]
BUndefined == [t |-> "Undefined"]
BMaxKey == [t |-> "MaxKey"]
BMinKey == [t |-> "MinKey"]

Entry(k, v) == [k |-> k, v |-> v]

----------------------------------------------------------------------------
(* Text encodings of bytes *)

\* hex::encode, lower case
HexDigit(n) == IF n < 10 THEN 48 + n ELSE 97 + (n - 10)

RECURSIVE HexEncode(_)
HexEncode(bytes) ==
    IF Len(bytes) = 0 THEN <<>>
    ELSE <<HexDigit(bytes[1] \div 16), HexDigit(bytes[1] % 16)>> \o HexEncode(Tail(bytes))

\* the value of a hex digit, -1 when the byte is none
HexValue(c) ==
    IF c >= 48 /\ c <= 57 THEN c - 48
    ELSE IF c >= 97 /\ c <= 102 THEN c - 87
    ELSE IF c >= 65 /\ c <= 70 THEN c - 55
    ELSE 0 - 1

RECURSIVE HexDecode(_)
HexDecode(s) ==
    IF Len(s) = 0 THEN Ok(<<>>)
    ELSE IF Len(s) = 1 \/ HexValue(s[1]) < 0 \/ HexValue(s[2]) < 0 THEN Err("FromHexError")
    ELSE LET rest == HexDecode(SubSeq(s, 3, Len(s)))
         IN  IF rest.ok THEN Ok(<<16 * HexValue(s[1]) + HexValue(s[2])>> \o rest.val)
             ELSE rest

\* base64::encode, standard alphabet with padding
B64Char(n) ==
    IF n < 26 THEN 65 + n
    ELSE IF n < 52 THEN 97 + (n - 26)
    ELSE IF n < 62 THEN 48 + (n - 52)
    ELSE IF n = 62 THEN 43 ELSE 47

RECURSIVE Base64Encode(_)
Base64Encode(b) ==
    IF Len(b) = 0 THEN <<>>
    ELSE IF Len(b) = 1
         THEN <<B64Char(b[1] \div 4), B64Char((b[1] % 4) * 16), 61, 61>>
    ELSE IF Len(b) = 2
         THEN <<B64Char(b[1] \div 4), B64Char((b[1] % 4) * 16 + b[2] \div 16),
                B64Char((b[2] % 16) * 4), 61>>
    ELSE <<B64Char(b[1] \div 4), B64Char((b[1] % 4) * 16 + b[2] \div 16),
           B64Char((b[2] % 16) * 4 + b[3] \div 64), B64Char(b[3] % 64)>>
         \o Base64Encode(SubSeq(b, 4, Len(b)))

\* the 6-bit value of a base64 character, -1 when the byte is none
B64Value(c) ==
    IF c >= 65 /\ c <= 90 THEN c - 65
    ELSE IF c >= 97 /\ c <= 122 THEN c - 71
    ELSE IF c >= 48 /\ c <= 57 THEN c + 4
    ELSE IF c = 43 THEN 62
    ELSE IF c = 47 THEN 63
    ELSE 0 - 1

RECURSIVE Base64Decode(_)
Base64Decode(s) ==
    IF Len(s) = 0 THEN Ok(<<>>)
    ELSE IF Len(s) < 4 \/ B64Value(s[1]) < 0 \/ B64Value(s[2]) < 0 THEN Err("DecodeError")
    ELSE LET v1 == B64Value(s[1])
             v2 == B64Value(s[2])
             v3 == B64Value(s[3])
             v4 == B64Value(s[4])
             b1 == v1 * 4 + v2 \div 16
             b2 == (v2 % 16) * 16 + v3 \div 4
             b3 == (v3 % 4) * 64 + v4
         IN  IF s[3] = 61
             THEN IF s[4] = 61 /\ Len(s) = 4 /\ v2 % 16 = 0 THEN Ok(<<b1>>)
                  ELSE Err("DecodeError")
             ELSE IF v3 < 0 THEN Err("DecodeError")
             ELSE IF s[4] = 61
             THEN IF Len(s) = 4 /\ v3 % 4 = 0 THEN Ok(<<b1, b2>>) ELSE Err("DecodeError")
             ELSE IF v4 < 0 THEN Err("DecodeError")
             ELSE LET rest == Base64Decode(SubSeq(s, 5, Len(s)))
                  IN  IF rest.ok THEN Ok(<<b1, b2, b3>> \o rest.val) ELSE rest

\* chars.sort_unstable(): the characters in non-decreasing order
RECURSIVE InsertSorted(_, _)
InsertSorted(c, s) ==
    IF Len(s) = 0 THEN <<c>>
    ELSE IF c <= s[1] THEN <<c>> \o s
    ELSE <<s[1]>> \o InsertSorted(c, Tail(s))

RECURSIVE SortChars(_)
SortChars(s) == IF Len(s) = 0 THEN <<>> ELSE InsertSorted(s[1], SortChars(Tail(s)))

\* std::str::from_utf8 on the bytes examined here, which are ASCII or not
IsUtf8(bytes) == \A i \in 1..Len(bytes) : bytes[i] < 128

----------------------------------------------------------------------------
(* Unsigned demotion *)

\* i32::try_from(u64): succeeds iff the upper four bytes are zero and the
\* sign bit of the lower four is clear
I32TryFromU64(value) ==
    IF value[5] = 0 /\ value[6] = 0 /\ value[7] = 0 /\ value[8] = 0 /\ value[4] < 128
    THEN Ok(I32FromLeBytes(SubSeq(value, 1, 4)))
    ELSE Err("TryFromIntError")

\* i64::try_from(u64): succeeds iff the sign bit is clear
I64TryFromU64(value) ==
    IF value[8] < 128 THEN Ok(value) ELSE Err("TryFromIntError")

\* a plausible slip: the 32-bit test done on the unsigned range
convert_unsigned_fits_u32(value) ==
    IF value[5] = 0 /\ value[6] = 0 /\ value[7] = 0 /\ value[8] = 0
    THEN Ok(BsonIntegerInt32(I32FromLeBytes(SubSeq(value, 1, 4))))
    ELSE IF I64TryFromU64(value).ok
         THEN Ok(BsonIntegerInt64(I64TryFromU64(value).val))
         ELSE Err([kind |-> "custom", msg |-> "cannot represent as a signed number",
                   value |-> value])

convert_unsigned(value) ==
    IF I32TryFromU64(value).ok
    THEN Ok(BsonIntegerInt32(I32TryFromU64(value).val))
    ELSE IF I64TryFromU64(value).ok
         THEN Ok(BsonIntegerInt64(I64TryFromU64(value).val))
         ELSE Err([kind |-> "custom", msg |-> "cannot represent as a signed number",
                   value |-> value])

convert_unsigned_to_signed(value) ==
    LET bi == convert_unsigned(value)
    IN  IF ~bi.ok THEN bi
        ELSE IF bi.val.t = "Int32" THEN Ok(BInt32(bi.val.v))
             ELSE Ok(BInt64(bi.val.v))

convert_unsigned_to_signed_raw(value) ==
    LET bi == convert_unsigned(value)
    IN  IF ~bi.ok THEN bi
        ELSE IF bi.val.t = "Int32" THEN Ok([t |-> "Int32", v |-> bi.val.v])
             ELSE Ok([t |-> "Int64", v |-> bi.val.v])

\* BsonVisitor::visit_u8 / visit_u16 / visit_u32 / visit_u64
visit_unsigned(value) == convert_unsigned_to_signed(AsU64(value))

(* The unsigned inputs examined: every byte of the value is a boundary     *)
(* byte, the bytes that decide the 32- and 64-bit range take more values.  *)
EdgeBytes == {0, 1, 127, 128, 255}
EndBytes == {0, 255}

UnsignedInputs ==
    { <<a>> : a \in EdgeBytes }
    \cup { <<a, b>> : a \in EdgeBytes, b \in EdgeBytes }
    \cup { <<a, b, c, d>> : a \in EndBytes, b \in EndBytes, c \in EdgeBytes, d \in EdgeBytes }
    \cup { <<a, a, c, d, e, e, g, h>> :
             a \in EndBytes, c \in EndBytes, d \in EdgeBytes,
             e \in EndBytes, g \in EndBytes, h \in EdgeBytes }

InitUnsigned ==
    /\ input \in UnsignedInputs
    /\ op = "init"
    /\ out = NoOut

VisitUnsigned ==
    /\ op = "init"
    /\ op' = "visit_unsigned"
    /\ out' = visit_unsigned(input)
    /\ UNCHANGED input

ConvertUnsignedRaw ==
    /\ op = "init"
    /\ Len(input) = 8
    /\ op' = "convert_unsigned_to_signed_raw"
    /\ out' = convert_unsigned_to_signed_raw(input)
    /\ UNCHANGED input

NextUnsigned == VisitUnsigned \/ ConvertUnsignedRaw

SpecUnsigned == InitUnsigned /\ [][NextUnsigned]_vars

I32_MAX_U64 == <<255, 255, 255, 127, 0, 0, 0, 0>>
I64_MAX_U64 == <<255, 255, 255, 255, 255, 255, 255, 127>>

UnsignedDone == op \in {"visit_unsigned", "convert_unsigned_to_signed_raw"}

\* C7: an unsigned input v becomes Int32(v) when v <= 2^31-1, Int64(v) when
\* 2^31 <= v <= 2^63-1, and an error when v >= 2^63; the number is kept
\* (the bytes of the result, zero-extended, are the bytes of the input).
C7_UnsignedDemotion ==
    UnsignedDone =>
        LET v == AsU64(input)
        IN  /\ LeU(v, I32_MAX_U64) =>
                /\ out.ok /\ out.val.t = "Int32"
                /\ AsU64(I32ToLeBytes(out.val.v)) = v
                /\ out.val.v >= 0
            /\ (LtU(I32_MAX_U64, v) /\ LeU(v, I64_MAX_U64)) =>
                /\ out.ok /\ out.val.t = "Int64"
                /\ out.val.v = v
            /\ LtU(I64_MAX_U64, v) => ~out.ok

\* 4294967295 (u32::MAX) went in and Int64 came out
C7_Witness ==
    /\ UnsignedDone
    /\ AsU64(input) = <<255, 255, 255, 255, 0, 0, 0, 0>>
    /\ out.ok /\ out.val.t = "Int64"

----------------------------------------------------------------------------
(* struct Deserializer, and what it hands to a visitor.                    *)
(* A dispatch is either the visitor method called with its parameter       *)
(* (the visitor's return value is then the result) or an error returned    *)
(* before any visitor method is called.                                    *)

Visit(call, param) == [visited |-> TRUE, call |-> call, param |-> param]
Fail(e) == [visited |-> FALSE, err |-> e]

NoParam == <<>>

EndOfStream == [kind |-> "end_of_stream"]

DefaultOptions == [human_readable |-> None]

DeserializerNewWithOptions(value, options) == [value |-> Some(value), options |-> options]

DeserializerNew(value) == DeserializerNewWithOptions(value, DefaultOptions)

is_human_readable(self) ==
    IF self.options.human_readable = None THEN TRUE
    ELSE Unwrap(self.options.human_readable)

\* enum DeserializerHint
HintNone == [h |-> "None"]
HintBinarySubtype(st) == [h |-> "BinarySubtype", subtype |-> st]
HintRawBson == [h |-> "RawBson"]

MapDeserializerNew(doc, options) ==
    [ma |-> "MapDeserializer", iter |-> doc, value |-> None, len |-> Len(doc),
     options |-> options]

SeqDeserializerOf(v, options) == [iter |-> v, len |-> Len(v), options |-> options]

\* Decimal128Access::new: a map access that yields the one entry
\* "$numberDecimalBytes": the 16 bytes
Decimal128AccessNew(d) == [ma |-> "Decimal128Access", decimal |-> d, visited |-> FALSE]

\* Bson::from(u32): Int32 when it fits, else Int64
BsonFromU32(b) ==
    IF b[4] < 128 THEN BInt32(I32FromLeBytes(b)) ELSE BInt64(AsU64(b))

\* the decimal digits of a natural number
RECURSIVE FormatNat(_)
FormatNat(n) == IF n < 10 THEN <<48 + n>> ELSE FormatNat(n \div 10) \o <<48 + (n % 10)>>

\* i64::to_string, for the values that fit in 32 bits
FormatI64(b) ==
    CASE SubSeq(b, 5, 8) = ZeroBytes(4) /\ b[4] < 128 ->
           FormatNat(I32FromLeBytes(SubSeq(b, 1, 4)))
      [] SubSeq(b, 5, 8) = <<255, 255, 255, 255>> /\ b[4] >= 128 ->
           <<45>> \o FormatNat(0 - I32FromLeBytes(SubSeq(b, 1, 4)))

\* Bson::into_extended_document(rawbson), for the variants the dispatch
\* sends there
IntoExtendedDocument(value, rawbson) ==
    CASE value.t = "RegularExpression" ->
           << Entry(Str.regularExpression,
                    BDocument(<< Entry(Str.pattern, BString(value.pattern)),
                                 Entry(Str.options, BString(SortChars(value.options))) >>)) >>
      [] value.t = "JavaScriptCode" -> << Entry(Str.code, BString(value.v)) >>
      [] value.t = "JavaScriptCodeWithScope" ->
           << Entry(Str.code, BString(value.code)), Entry(Str.scope, BDocument(value.scope)) >>
      [] value.t = "Timestamp" ->
           << Entry(Str.timestamp,
                    BDocument(<< Entry(Str.t, BsonFromU32(value.time)),
                                 Entry(Str.i, BsonFromU32(value.increment)) >>)) >>
      [] value.t = "Binary" ->
           IF rawbson
           THEN << Entry(Str.binary,
                         BDocument(<< Entry(Str.bytes, BBinary(BinarySubtype.Generic, value.bytes)),
                                      Entry(Str.subType, BInt32(value.subtype)) >>)) >>
           ELSE << Entry(Str.binary,
                         BDocument(<< Entry(Str.base64, BString(Base64Encode(value.bytes))),
                                      Entry(Str.subType, BString(HexEncode(<<value.subtype>>))) >>)) >>
      [] value.t = "ObjectId" -> << Entry(Str.oid, BString(HexEncode(value.v))) >>
      [] value.t = "DateTime" /\ rawbson -> << Entry(Str.date, BInt64(value.v)) >>
      [] value.t = "DateTime" /\ ~rawbson ->
           << Entry(Str.date,
                    BDocument(<< Entry(Str.numberLong, BString(FormatI64(value.v))) >>)) >>
      [] value.t = "Symbol" -> << Entry(Str.symbol, BString(value.v)) >>
      [] value.t = "Undefined" -> << Entry(Str.undefined, BBoolean(TRUE)) >>
      [] value.t = "MinKey" -> << Entry(Str.minKey, BInt32(1)) >>
      [] value.t = "MaxKey" -> << Entry(Str.maxKey, BInt32(1)) >>
      [] value.t = "DbPointer" ->
           << Entry(Str.dbPointer,
                    BDocument(<< Entry(Str.ref, BString(value.namespace)),
                                 Entry(Str.id, BDocument(<< Entry(Str.oid,
                                                BString(HexEncode(value.id))) >>)) >>)) >>

SubtypeMismatch(expected, got) ==
    [kind |-> "custom", msg |-> "expected Binary with subtype, instead got subtype",
     subtype |-> expected, xgot |-> got]

\* a plausible slip: the subtype compared with the default one, not the expected one
hint_rejects_not_generic(value, hint) ==
    hint.h = "BinarySubtype" /\ value.t = "Binary" /\ value.subtype # BinarySubtype.Generic

\* the hint test at the head of deserialize_next
hint_rejects(value, hint) ==
    hint.h = "BinarySubtype" /\ value.t = "Binary" /\ value.subtype # hint.subtype

\* a plausible slip: every binary handed over as plain bytes, whatever its subtype
deserialize_next_any_binary(self, hint) ==
    IF self.value = None THEN Fail(EndOfStream)
    ELSE LET value == Unwrap(self.value)
             is_rawbson == hint.h = "RawBson"
         IN  IF hint_rejects(value, hint)
             THEN Fail(SubtypeMismatch(hint.subtype, value.subtype))
             ELSE CASE value.t = "Double" -> Visit("visit_f64", value.v)
                    [] value.t = "String" -> Visit("visit_string", value.v)
                    [] value.t = "Array" ->
                         Visit("visit_seq", SeqDeserializerOf(value.v, self.options))
                    [] value.t = "Document" ->
                         Visit("visit_map", MapDeserializerNew(value.v, self.options))
                    [] value.t = "Boolean" -> Visit("visit_bool", value.v)
                    [] value.t = "Null" -> Visit("visit_unit", NoParam)
                    [] value.t = "Int32" -> Visit("visit_i32", value.v)
                    [] value.t = "Int64" -> Visit("visit_i64", value.v)
                    [] value.t = "Binary" ->
                         Visit("visit_byte_buf", value.bytes)
                    [] value.t = "Decimal128" ->
                         Visit("visit_map", Decimal128AccessNew(value.v))
                    [] OTHER ->
                         Visit("visit_map",
                               MapDeserializerNew(IntoExtendedDocument(value, is_rawbson),
                                                  self.options))

\* Deserializer::deserialize_next: the visitor method called for the value held
deserialize_next(self, hint) ==
    IF self.value = None THEN Fail(EndOfStream)
    ELSE LET value == Unwrap(self.value)
             is_rawbson == hint.h = "RawBson"
         IN  IF hint_rejects(value, hint)
             THEN Fail(SubtypeMismatch(hint.subtype, value.subtype))
             ELSE CASE value.t = "Double" -> Visit("visit_f64", value.v)
                    [] value.t = "String" -> Visit("visit_string", value.v)
                    [] value.t = "Array" ->
                         Visit("visit_seq", SeqDeserializerOf(value.v, self.options))
                    [] value.t = "Document" ->
                         Visit("visit_map", MapDeserializerNew(value.v, self.options))
                    [] value.t = "Boolean" -> Visit("visit_bool", value.v)
                    [] value.t = "Null" -> Visit("visit_unit", NoParam)
                    [] value.t = "Int32" -> Visit("visit_i32", value.v)
                    [] value.t = "Int64" -> Visit("visit_i64", value.v)
                    [] value.t = "Binary" /\ value.subtype = BinarySubtype.Generic ->
                         Visit("visit_byte_buf", value.bytes)
                    [] value.t = "Decimal128" ->
                         Visit("visit_map", Decimal128AccessNew(value.v))
                    [] OTHER ->
                         Visit("visit_map",
                               MapDeserializerNew(IntoExtendedDocument(value, is_rawbson),
                                                  self.options))

deserialize_any(self) == deserialize_next(self, HintNone)

deserialize_bytes(self) ==
    IF self.value # None /\ Unwrap(self.value).t = "ObjectId" /\ ~is_human_readable(self)
    THEN Visit("visit_bytes", Unwrap(self.value).v)
    ELSE deserialize_any(self)

\* a plausible slip: the value taken out before the deserializer is handed on
deserialize_option_taking(self) ==
    IF self.value = None THEN Fail(EndOfStream)
    ELSE IF Unwrap(self.value).t = "Null" THEN Visit("visit_none", NoParam)
    ELSE Visit("visit_some", [self EXCEPT !.value = None])

\* Deserializer::deserialize_option
deserialize_option(self) ==
    IF self.value = None THEN Fail(EndOfStream)
    ELSE IF Unwrap(self.value).t = "Null" THEN Visit("visit_none", NoParam)
    ELSE Visit("visit_some", self)

EnumDeserializer(val, payload, options) ==
    [val |-> val, deserializer |-> [val |-> payload, options |-> options]]

\* a plausible slip: the check for a second entry left out
deserialize_enum_first_entry(self) ==
    IF self.value = None THEN Fail(EndOfStream)
    ELSE LET v == Unwrap(self.value)
         IN  IF v.t = "String"
             THEN Visit("visit_enum", EnumDeserializer(BString(v.v), None, self.options))
             ELSE IF v.t # "Document"
             THEN Fail([kind |-> "invalid_type", unexp |-> v.t, want |-> "expected an enum"])
             ELSE IF Len(v.v) = 0
             THEN Fail([kind |-> "invalid_value", unexp |-> "empty document",
                        want |-> "variant name"])
             ELSE Visit("visit_enum",
                        EnumDeserializer(BString(v.v[1].k), Some(v.v[1].v), self.options))

deserialize_enum(self) ==
    IF self.value = None THEN Fail(EndOfStream)
    ELSE LET v == Unwrap(self.value)
         IN  IF v.t = "String"
             THEN Visit("visit_enum", EnumDeserializer(BString(v.v), None, self.options))
             ELSE IF v.t # "Document"
             THEN Fail([kind |-> "invalid_type", unexp |-> v.t, want |-> "expected an enum"])
             ELSE LET iter == v.v
                  IN  IF Len(iter) = 0
                      THEN Fail([kind |-> "invalid_value", unexp |-> "empty document",
                                 want |-> "variant name"])
                      ELSE IF Len(iter) >= 2
                      THEN Fail([kind |-> "invalid_value", unexp |-> "Map",
                                 want |-> "expected map with a single key, got extra key",
                                 xkey |-> iter[2].k])
                      ELSE Visit("visit_enum",
                                 EnumDeserializer(BString(iter[1].k), Some(iter[1].v),
                                                  self.options))

NewtypeNames ==
    {"UUID_NEWTYPE_NAME", "RAW_BSON_NEWTYPE", "RAW_DOCUMENT_NEWTYPE", "RAW_ARRAY_NEWTYPE",
     "HUMAN_READABLE_NEWTYPE", "Other"}

\* a plausible slip: the value taken out before the deserializer goes to
\* visit_newtype_struct
deserialize_newtype_struct_taking(self, name) ==
    CASE name = "UUID_NEWTYPE_NAME" ->
           deserialize_next(self, HintBinarySubtype(BinarySubtype.Uuid))
      [] name = "RAW_BSON_NEWTYPE" -> deserialize_next(self, HintRawBson)
      [] name = "RAW_DOCUMENT_NEWTYPE" ->
           IF ~(self.value # None /\ Unwrap(self.value).t = "Document")
           THEN Fail([kind |-> "custom", msg |-> "expected raw document, instead got",
                      value |-> self.value])
           ELSE deserialize_next(self, HintRawBson)
      [] name = "RAW_ARRAY_NEWTYPE" ->
           IF ~(self.value # None /\ Unwrap(self.value).t = "Array")
           THEN Fail([kind |-> "custom", msg |-> "expected raw array, instead got",
                      value |-> self.value])
           ELSE deserialize_next(self, HintRawBson)
      [] name = "HUMAN_READABLE_NEWTYPE" ->
           Visit("visit_newtype_struct",
                 [self EXCEPT !.options.human_readable = Some(TRUE)])
      [] OTHER -> Visit("visit_newtype_struct", [self EXCEPT !.value = None])

\* Deserializer::deserialize_newtype_struct
deserialize_newtype_struct(self, name) ==
    CASE name = "UUID_NEWTYPE_NAME" ->
           deserialize_next(self, HintBinarySubtype(BinarySubtype.Uuid))
      [] name = "RAW_BSON_NEWTYPE" -> deserialize_next(self, HintRawBson)
      [] name = "RAW_DOCUMENT_NEWTYPE" ->
           IF ~(self.value # None /\ Unwrap(self.value).t = "Document")
           THEN Fail([kind |-> "custom", msg |-> "expected raw document, instead got",
                      value |-> self.value])
           ELSE deserialize_next(self, HintRawBson)
      [] name = "RAW_ARRAY_NEWTYPE" ->
           IF ~(self.value # None /\ Unwrap(self.value).t = "Array")
           THEN Fail([kind |-> "custom", msg |-> "expected raw array, instead got",
                      value |-> self.value])
           ELSE deserialize_next(self, HintRawBson)
      [] name = "HUMAN_READABLE_NEWTYPE" ->
           Visit("visit_newtype_struct",
                 [self EXCEPT !.options.human_readable = Some(TRUE)])
      [] OTHER -> Visit("visit_newtype_struct", self)

----------------------------------------------------------------------------
(* Text to number conversions used by the special keys *)

IsDigit(c) == c >= 48 /\ c <= 57

AllDigits(s) == Len(s) > 0 /\ \A i \in 1..Len(s) : IsDigit(s[i])

\* the digits of a non-negative i32, most significant first; acc is the
\* value so far; an overflow of the 32-bit range is an error
RECURSIVE ParsePosI32(_, _)
ParsePosI32(s, acc) ==
    IF Len(s) = 0 THEN Ok(acc)
    ELSE LET d == s[1] - 48
         IN  IF ~IsDigit(s[1]) THEN Err("InvalidDigit")
             ELSE IF acc < 214748364 \/ (acc = 214748364 /\ d <= 7)
             THEN ParsePosI32(Tail(s), acc * 10 + d)
             ELSE Err("PosOverflow")

\* the same for a negative i32, accumulated below zero
RECURSIVE ParseNegI32(_, _)
ParseNegI32(s, acc) ==
    IF Len(s) = 0 THEN Ok(acc)
    ELSE LET d == s[1] - 48
         IN  IF ~IsDigit(s[1]) THEN Err("InvalidDigit")
             ELSE IF acc > 0 - 214748364 \/ (acc = 0 - 214748364 /\ d <= 8)
             THEN ParseNegI32(Tail(s), acc * 10 - d)
             ELSE Err("NegOverflow")

\* str::parse::<i32>()
ParseI32(s) ==
    IF Len(s) = 0 THEN Err("Empty")
    ELSE IF s[1] = 45
         THEN IF Len(s) = 1 THEN Err("InvalidDigit") ELSE ParseNegI32(Tail(s), 0)
    ELSE IF s[1] = 43
         THEN IF Len(s) = 1 THEN Err("InvalidDigit") ELSE ParsePosI32(Tail(s), 0)
    ELSE ParsePosI32(s, 0)

\* b * 10 + carry on an unsigned little-endian number; the carry out of the
\* last byte is returned with the bytes
RECURSIVE MulAdd10(_, _)
MulAdd10(b, carry) ==
    IF Len(b) = 0 THEN [bytes |-> <<>>, carry |-> carry]
    ELSE LET x == b[1] * 10 + carry
             rest == MulAdd10(Tail(b), x \div 256)
         IN  [bytes |-> <<x % 256>> \o rest.bytes, carry |-> rest.carry]

\* the magnitude of a decimal digit string as an unsigned 64-bit number
RECURSIVE ParseU64Digits(_, _)
ParseU64Digits(s, acc) ==
    IF Len(s) = 0 THEN Ok(acc)
    ELSE IF ~IsDigit(s[1]) THEN Err("InvalidDigit")
    ELSE LET r == MulAdd10(acc, s[1] - 48)
         IN  IF r.carry # 0 THEN Err("Overflow") ELSE ParseU64Digits(Tail(s), r.bytes)

\* two's complement negation of a little-endian number
RECURSIVE AddOne(_)
AddOne(b) ==
    IF Len(b) = 0 THEN <<>>
    ELSE IF b[1] = 255 THEN <<0>> \o AddOne(Tail(b))
    ELSE <<b[1] + 1>> \o Tail(b)

NegateLe(b) == AddOne([i \in 1..Len(b) |-> 255 - b[i]])

I64_MIN_MAGNITUDE == <<0, 0, 0, 0, 0, 0, 0, 128>>

\* str::parse::<i64>(), as 8 little-endian bytes
ParseI64(s) ==
    IF Len(s) = 0 THEN Err("Empty")
    ELSE LET neg == s[1] = 45
             digits == IF s[1] = 45 \/ s[1] = 43 THEN Tail(s) ELSE s
             mag == ParseU64Digits(digits, ZeroBytes(8))
         IN  IF Len(digits) = 0 THEN Err("InvalidDigit")
             ELSE IF ~mag.ok THEN mag
             ELSE IF neg
                  THEN IF LeU(mag.val, I64_MIN_MAGNITUDE) THEN Ok(NegateLe(mag.val))
                       ELSE Err("NegOverflow")
                  ELSE IF mag.val[8] < 128 THEN Ok(mag.val) ELSE Err("PosOverflow")

\* i32 as i64 (sign extension), 8 little-endian bytes
I64FromI32(i) ==
    I32ToLeBytes(i) \o (IF i < 0 THEN <<255, 255, 255, 255>> ELSE <<0, 0, 0, 0>>)

\* the IEEE-754 special values
F64_INFINITY == <<0, 0, 0, 0, 0, 0, 240, 127>>
F64_NEG_INFINITY == <<0, 0, 0, 0, 0, 0, 240, 255>>
F64_NAN == <<0, 0, 0, 0, 0, 0, 248, 127>>

RECURSIVE Log2Floor(_)
Log2Floor(n) == IF n <= 1 THEN 0 ELSE 1 + Log2Floor(n \div 2)

RECURSIVE Pow2(_)
Pow2(e) == IF e = 0 THEN 1 ELSE 2 * Pow2(e - 1)

\* the f64 of an integer 0 <= n < 2^20
F64FromSmallInt(n) ==
    IF n = 0 THEN ZeroBytes(8)
    ELSE LET e == Log2Floor(n)
             m20 == (n - Pow2(e)) * Pow2(20 - e)     \* the top 20 mantissa bits
             ex == 1023 + e
         IN  <<0, 0, 0, 0, m20 % 256, (m20 \div 256) % 256,
               (ex % 16) * 16 + m20 \div 65536, ex \div 16>>

\* str::parse::<f64>() where the outcome is modelled: a string of at most six
\* digits is that integer; a string whose first byte cannot start a float
\* literal is an error
ParseF64(s) ==
    CASE AllDigits(s) /\ Len(s) <= 6 -> Ok(F64FromSmallInt(ParsePosI32(s, 0).val))
      [] Len(s) = 0 -> Err("Empty")
      [] Len(s) > 0 /\ ~(IsDigit(s[1]) \/ s[1] \in {43, 45, 46, 73, 105, 78, 110}) ->
           Err("Invalid")

\* str::parse::<Decimal128>() where the outcome is modelled: a string of at
\* most nine digits is that coefficient with exponent 0; a string whose first
\* byte cannot start a decimal literal is an error
ParseDecimal128(s) ==
    CASE AllDigits(s) /\ Len(s) <= 9 ->
           Ok(I32ToLeBytes(ParsePosI32(s, 0).val) \o ZeroBytes(10) \o <<64, 48>>)
      [] s = Str.Infinity -> Ok(ZeroBytes(15) \o <<120>>)
      [] s = Str.NegInfinity -> Ok(ZeroBytes(15) \o <<248>>)
      [] s = Str.NaN -> Ok(ZeroBytes(15) \o <<124>>)
      [] Len(s) = 0 -> Err("Empty")
      [] Len(s) > 0 /\ ~(IsDigit(s[1]) \/ s[1] \in {43, 45, 46, 73, 105, 78, 110}) ->
           Err("Invalid")

\* Decimal128::deserialize_from_slice: exactly 16 bytes
Decimal128FromSlice(bytes) ==
    IF Len(bytes) = 16 THEN Ok(bytes)
    ELSE Err([kind |-> "custom", msg |-> "could not convert slice to array"])

\* ObjectId::parse_str: 24 hex digits
ObjectIdParseStr(s) ==
    IF Len(s) # 24 THEN Err("InvalidHexStringLength")
    ELSE LET r == HexDecode(s)
         IN  IF r.ok THEN r ELSE Err("InvalidHexStringCharacter")

\* extjson::models::Uuid::parse: 8-4-4-4-12 hex digits give the 16 bytes
UuidParse(s) ==
    IF Len(s) # 36 \/ s[9] # 45 \/ s[14] # 45 \/ s[19] # 45 \/ s[24] # 45
    THEN Err("InvalidUuid")
    ELSE LET r == HexDecode(SubSeq(s, 1, 8) \o SubSeq(s, 10, 13) \o SubSeq(s, 15, 18)
                            \o SubSeq(s, 20, 23) \o SubSeq(s, 25, 36))
         IN  IF r.ok THEN r ELSE Err("InvalidUuid")

----------------------------------------------------------------------------
(* MapAccess: MapDeserializer over a Document, and Decimal128Access *)

InvalidType(d, want) == [kind |-> "invalid_type", unexp |-> d.call, want |-> want]

\* String::deserialize: a string, or bytes that are valid UTF-8
DeString(d) ==
    IF ~d.visited THEN Err(d.err)
    ELSE IF d.call = "visit_string" THEN Ok(d.param)
    ELSE IF d.call \in {"visit_byte_buf", "visit_bytes"}
         THEN IF IsUtf8(d.param) THEN Ok(d.param)
              ELSE Err([kind |-> "invalid_value", unexp |-> "Bytes", want |-> "a string"])
    ELSE Err(InvalidType(d, "a string"))

\* a plausible slip: a value that is still pending is not replaced by the
\* value of the next key
next_key_seed_keeping_pending(m) ==
    IF m.ma = "MapDeserializer"
    THEN IF Len(m.iter) > 0
         THEN LET Keyed(key, value, r) ==
                      [m |-> [m EXCEPT !.iter = Tail(m.iter), !.len = m.len - 1,
                                       !.value = IF m.value = None THEN Some(value)
                                                 ELSE m.value],
                       key |-> IF r.ok THEN Ok(Some(r.val)) ELSE r]
              IN  Keyed(m.iter[1].k, m.iter[1].v,
                        DeString(deserialize_any(
                            DeserializerNewWithOptions(BString(m.iter[1].k), m.options))))
         ELSE [m |-> m, key |-> Ok(None)]
    ELSE IF ~m.visited
         THEN [m |-> [m EXCEPT !.visited = TRUE], key |-> Ok(Some(Str.numberDecimalBytes))]
         ELSE [m |-> m, key |-> Ok(None)]

\* MapDeserializer::next_key_seed / Decimal128Access::next_key_seed, for a
\* String key: the access afterwards and the key
next_key_seed(m) ==
    IF m.ma = "MapDeserializer"
    THEN IF Len(m.iter) > 0
         THEN LET Keyed(key, value, r) ==
                      [m |-> [m EXCEPT !.iter = Tail(m.iter), !.len = m.len - 1,
                                       !.value = Some(value)],
                       key |-> IF r.ok THEN Ok(Some(r.val)) ELSE r]
              IN  Keyed(m.iter[1].k, m.iter[1].v,
                        DeString(deserialize_any(
                            DeserializerNewWithOptions(BString(m.iter[1].k), m.options))))
         ELSE [m |-> m, key |-> Ok(None)]
    ELSE IF ~m.visited
         THEN [m |-> [m EXCEPT !.visited = TRUE], key |-> Ok(Some(Str.numberDecimalBytes))]
         ELSE [m |-> m, key |-> Ok(None)]

\* a plausible slip: the pending value read but left in place
next_value_seed_without_take(m) ==
    IF m.ma = "MapDeserializer"
    THEN IF m.value = None
         THEN [m |-> m, d |-> Fail(EndOfStream)]
         ELSE [m |-> m,
               d |-> deserialize_any(DeserializerNewWithOptions(Unwrap(m.value), m.options))]
    ELSE [m |-> m, d |-> Visit("visit_bytes", m.decimal)]

\* MapDeserializer::next_value_seed / Decimal128Access::next_value_seed: the
\* access afterwards and the dispatch the value's deserializer makes for
\* deserialize_any (every seed used below ends there)
next_value_seed(m) ==
    IF m.ma = "MapDeserializer"
    THEN IF m.value = None
         THEN [m |-> m, d |-> Fail(EndOfStream)]
         ELSE [m |-> [m EXCEPT !.value = None],
               d |-> deserialize_any(DeserializerNewWithOptions(Unwrap(m.value), m.options))]
    ELSE [m |-> m, d |-> Visit("visit_bytes", m.decimal)]

----------------------------------------------------------------------------
(* The targets visit_map asks next_value for *)

DeBool(d) ==
    IF ~d.visited THEN Err(d.err)
    ELSE IF d.call = "visit_bool" THEN Ok(d.param)
    ELSE Err(InvalidType(d, "a boolean"))

\* u8::deserialize: an integer in 0..255
DeU8(d) ==
    IF ~d.visited THEN Err(d.err)
    ELSE IF d.call = "visit_i32"
         THEN IF d.param >= 0 /\ d.param <= 255 THEN Ok(d.param)
              ELSE Err([kind |-> "invalid_value", unexp |-> "Signed", want |-> "u8"])
    ELSE IF d.call = "visit_i64"
         THEN IF SubSeq(d.param, 2, 8) = ZeroBytes(7) THEN Ok(d.param[1])
              ELSE Err([kind |-> "invalid_value", unexp |-> "Signed", want |-> "u8"])
    ELSE Err(InvalidType(d, "u8"))

\* u32::deserialize, as 4 little-endian bytes
DeU32(d) ==
    IF ~d.visited THEN Err(d.err)
    ELSE IF d.call = "visit_i32"
         THEN IF d.param >= 0 THEN Ok(I32ToLeBytes(d.param))
              ELSE Err([kind |-> "invalid_value", unexp |-> "Signed", want |-> "u32"])
    ELSE IF d.call = "visit_i64"
         THEN IF SubSeq(d.param, 5, 8) = ZeroBytes(4) THEN Ok(SubSeq(d.param, 1, 4))
              ELSE Err([kind |-> "invalid_value", unexp |-> "Signed", want |-> "u32"])
    ELSE Err(InvalidType(d, "u32"))

\* i64::deserialize, as 8 little-endian bytes
DeI64(d) ==
    IF ~d.visited THEN Err(d.err)
    ELSE IF d.call = "visit_i32" THEN Ok(I64FromI32(d.param))
    ELSE IF d.call = "visit_i64" THEN Ok(d.param)
    ELSE Err(InvalidType(d, "i64"))

\* BytesOrHex::deserialize (BytesOrHexVisitor inside the "$oid" arm)
DeBytesOrHex(d) ==
    IF ~d.visited THEN Err(d.err)
    ELSE IF d.call = "visit_string" THEN Ok([t |-> "Hex", v |-> d.param])
    ELSE IF d.call \in {"visit_byte_buf", "visit_bytes"}
         THEN IF Len(d.param) = 12 THEN Ok([t |-> "Bytes", v |-> d.param])
              ELSE Err([kind |-> "custom", msg |-> "could not convert slice to array"])
    ELSE Err(InvalidType(d, "hexstring or byte array"))

\* the elements of a sequence as bytes
RECURSIVE SeqOfU8(_, _)
SeqOfU8(iter, options) ==
    IF Len(iter) = 0 THEN Ok(<<>>)
    ELSE LET Rest(e, rest) == IF rest.ok THEN Ok(<<e.val>> \o rest.val) ELSE rest
             First(e) == IF ~e.ok THEN e ELSE Rest(e, SeqOfU8(Tail(iter), options))
         IN  First(DeU8(deserialize_any(DeserializerNewWithOptions(iter[1], options))))

\* serde_bytes::ByteBuf::deserialize: bytes, a string's bytes, or a sequence
\* of u8
DeByteBuf(d) ==
    IF ~d.visited THEN Err(d.err)
    ELSE IF d.call \in {"visit_byte_buf", "visit_bytes", "visit_string"} THEN Ok(d.param)
    ELSE IF d.call = "visit_seq" THEN SeqOfU8(d.param.iter, d.param.options)
    ELSE Err(InvalidType(d, "byte array"))

(* The bodies of extjson::models: structs that deny unknown fields.  A     *)
(* body is read from a map whose keys are exactly the struct's fields.     *)

Keys(doc) == { doc[i].k : i \in 1..Len(doc) }

Field(doc, k) == (CHOOSE i \in 1..Len(doc) : doc[i].k = k)

FieldDispatch(m, k) ==
    deserialize_any(DeserializerNewWithOptions(m.iter[Field(m.iter, k)].v, m.options))

\* the map a struct body is read from, or the error
BodyMap(d, fields, want) ==
    IF ~d.visited THEN Err(d.err)
    ELSE IF d.call # "visit_map" \/ d.param.ma # "MapDeserializer"
    THEN Err(InvalidType(d, want))
    ELSE IF Keys(d.param.iter) \ fields # {}
    THEN Err([kind |-> "unknown_field", want |-> want])
    ELSE IF fields \ Keys(d.param.iter) # {}
    THEN Err([kind |-> "missing_field", want |-> want])
    ELSE Ok(d.param)

\* BinaryBody { base64, subType } and Binary::parse
ParseBinary(d) ==
    LET Parse(bytes, st) ==
            IF ~bytes.ok \/ ~st.ok \/ Len(st.val) # 1
            THEN Err([kind |-> "custom", msg |-> "invalid $binary"])
            ELSE Ok(BBinary(st.val[1], bytes.val))
        Body(base64, subtype) ==
            IF ~base64.ok THEN base64
            ELSE IF ~subtype.ok THEN subtype
            ELSE Parse(Base64Decode(base64.val), HexDecode(subtype.val))
        Fields(m) ==
            IF ~m.ok THEN m
            ELSE Body(DeString(FieldDispatch(m.val, Str.base64)),
                      DeString(FieldDispatch(m.val, Str.subType)))
    IN  Fields(BodyMap(d, {Str.base64, Str.subType}, "struct BinaryBody"))

\* TimestampBody { t, i }
ParseTimestamp(d) ==
    LET Body(t, i) ==
            IF ~t.ok THEN t
            ELSE IF ~i.ok THEN i
            ELSE Ok(BTimestamp(t.val, i.val))
        Fields(m) ==
            IF ~m.ok THEN m
            ELSE Body(DeU32(FieldDispatch(m.val, Str.t)), DeU32(FieldDispatch(m.val, Str.i)))
    IN  Fields(BodyMap(d, {Str.t, Str.i}, "struct TimestampBody"))

HasNul(s) == \E i \in 1..Len(s) : s[i] = 0

\* RegexBody { pattern, options } and Regex::from_strings
ParseRegex(d) ==
    LET Body(pattern, options) ==
            IF ~pattern.ok THEN pattern
            ELSE IF ~options.ok THEN options
            ELSE IF HasNul(pattern.val) \/ HasNul(options.val)
            THEN Err([kind |-> "custom", msg |-> "interior nul byte"])
            ELSE Ok(BRegularExpression(pattern.val, SortChars(options.val)))
        Fields(m) ==
            IF ~m.ok THEN m
            ELSE Body(DeString(FieldDispatch(m.val, Str.pattern)),
                      DeString(FieldDispatch(m.val, Str.options)))
    IN  Fields(BodyMap(d, {Str.pattern, Str.options}, "struct RegexBody"))

\* DbPointerBody { $ref, $id: { $oid } } and ObjectId::parse
ParseDbPointer(d) ==
    LET Parse(ns, id) ==
            IF ~id.ok THEN Err([kind |-> "custom", msg |-> "invalid ObjectId"])
            ELSE Ok(BDbPointer(ns.val, id.val))
        Id(ns, hex) == IF ~hex.ok THEN hex ELSE Parse(ns, ObjectIdParseStr(hex.val))
        Body(ns, idm) ==
            IF ~ns.ok THEN ns
            ELSE IF ~idm.ok THEN idm
            ELSE Id(ns, DeString(FieldDispatch(idm.val, Str.oid)))
        Fields(m) ==
            IF ~m.ok THEN m
            ELSE Body(DeString(FieldDispatch(m.val, Str.ref)),
                      BodyMap(FieldDispatch(m.val, Str.id), {Str.oid}, "struct ObjectId"))
    IN  Fields(BodyMap(d, {Str.ref, Str.id}, "struct DbPointerBody"))

\* DateTimeBody, an untagged enum: Canonical { $numberLong }, Relaxed(String),
\* Legacy(i64); and DateTime::parse.  A relaxed string shorter than an
\* RFC 3339 date, or without the dash after the year, is no date.
ParseDateTime(d) ==
    LET NoVariant ==
            Err([kind |-> "custom", msg |-> "data did not match any variant of DateTimeBody"])
        Millis(i) ==
            IF ~i.ok THEN Err([kind |-> "custom", msg |-> "invalid $date"])
            ELSE Ok(BDateTime(i.val))
        Canonical(s) == IF ~s.ok THEN NoVariant ELSE Millis(ParseI64(s.val))
        Body(isCanonical) ==
            CASE isCanonical -> Canonical(DeString(FieldDispatch(d.param, Str.numberLong)))
              [] d.call = "visit_string" /\ (Len(d.param) < 20 \/ d.param[5] # 45) ->
                   Err([kind |-> "custom", msg |-> "invalid $date"])
              [] d.call \in {"visit_i32", "visit_i64"} -> Ok(BDateTime(DeI64(d).val))
              [] d.call \notin {"visit_string", "visit_i32", "visit_i64"} /\ ~isCanonical ->
                   NoVariant
    IN  IF ~d.visited THEN Err(d.err)
        ELSE Body(d.call = "visit_map" /\ BodyMap(d, {Str.numberLong}, "struct Int64").ok)

\* MaxKey::parse / MinKey::parse: the value must be 1
ParseKey(d, variant) ==
    LET i == DeU8(d)
    IN  IF ~i.ok THEN i
        ELSE IF i.val = 1 THEN Ok(variant)
        ELSE Err([kind |-> "custom", msg |-> "expected 1"])

\* Undefined::parse: the value must be true
ParseUndefined(d) ==
    LET b == DeBool(d)
    IN  IF ~b.ok THEN b
        ELSE IF b.val THEN Ok(BUndefined)
        ELSE Err([kind |-> "custom", msg |-> "expected true"])

----------------------------------------------------------------------------
(* BsonVisitor *)

InvalidStr(string, want) == [kind |-> "invalid_value", unexp_str |-> string, want |-> want]

\* the arms of visit_map that read one value and return; d is what
\* next_value's deserializer dispatched
oid_arm(d) ==
    LET bytes_or_hex == DeBytesOrHex(d)
    IN  IF ~bytes_or_hex.ok THEN bytes_or_hex
        ELSE IF bytes_or_hex.val.t = "Bytes" THEN Ok(BObjectId(bytes_or_hex.val.v))
        ELSE LET hex == bytes_or_hex.val.v
             IN  IF ObjectIdParseStr(hex).ok THEN Ok(BObjectId(ObjectIdParseStr(hex).val))
                 ELSE Err(InvalidStr(hex, "24-character, big-endian hex string"))

symbol_arm(d) ==
    LET string == DeString(d)
    IN  IF ~string.ok THEN string ELSE Ok(BSymbol(string.val))

\* a plausible slip: the text parsed as 64 bits and cut to the low 32
numberInt_arm_wrapping(d) ==
    LET string == DeString(d)
    IN  IF ~string.ok THEN string
        ELSE IF ParseI64(string.val).ok
             THEN Ok(BInt32(I32FromLeBytes(SubSeq(ParseI64(string.val).val, 1, 4))))
        ELSE Err(InvalidStr(string.val, "32-bit signed integer as a string"))

numberInt_arm(d) ==
    LET string == DeString(d)
    IN  IF ~string.ok THEN string
        ELSE IF ParseI32(string.val).ok THEN Ok(BInt32(ParseI32(string.val).val))
        ELSE Err(InvalidStr(string.val, "32-bit signed integer as a string"))

numberLong_arm(d) ==
    LET string == DeString(d)
    IN  IF ~string.ok THEN string
        ELSE IF ParseI64(string.val).ok THEN Ok(BInt64(ParseI64(string.val).val))
        ELSE Err(InvalidStr(string.val, "64-bit signed integer as a string"))

numberDouble_arm(d) ==
    LET string == DeString(d)
    IN  IF ~string.ok THEN string
        ELSE IF string.val = Str.Infinity THEN Ok(BDouble(F64_INFINITY))
        ELSE IF string.val = Str.NegInfinity THEN Ok(BDouble(F64_NEG_INFINITY))
        ELSE IF string.val = Str.NaN THEN Ok(BDouble(F64_NAN))
        ELSE IF ParseF64(string.val).ok THEN Ok(BDouble(ParseF64(string.val).val))
        ELSE Err(InvalidStr(string.val, "64-bit signed integer as a string"))

uuid_arm(d) ==
    LET v == DeString(d)
    IN  IF ~v.ok THEN v
        ELSE IF UuidParse(v.val).ok THEN Ok(BBinary(BinarySubtype.Uuid, UuidParse(v.val).val))
        ELSE Err([kind |-> "custom", msg |-> "invalid $uuid"])

numberDecimal_arm(d) ==
    LET string == DeString(d)
    IN  IF ~string.ok THEN string
        ELSE IF ParseDecimal128(string.val).ok
        THEN Ok(BDecimal128(ParseDecimal128(string.val).val))
        ELSE Err(InvalidStr(string.val, "decimal128 as a string"))

numberDecimalBytes_arm(d) ==
    LET bytes == DeByteBuf(d)
    IN  IF ~bytes.ok THEN bytes
        ELSE IF Decimal128FromSlice(bytes.val).ok
        THEN Ok(BDecimal128(Decimal128FromSlice(bytes.val).val))
        ELSE Decimal128FromSlice(bytes.val)

SingleValueKeys ==
    {Str.oid, Str.symbol, Str.numberInt, Str.numberLong, Str.numberDouble, Str.binary, Str.uuid,
     Str.timestamp, Str.regularExpression, Str.dbPointer, Str.date, Str.maxKey, Str.minKey,
     Str.undefined, Str.numberDecimal, Str.numberDecimalBytes}

SpecialKeys == SingleValueKeys \cup {Str.code, Str.scope}

\* a plausible slip: a "$numberInt" whose string is no number is kept as a
\* plain document
single_value_arm_fallback(k, d) ==
    CASE k = Str.oid -> oid_arm(d)
      [] k = Str.symbol -> symbol_arm(d)
      [] k = Str.numberInt ->
           (IF DeString(d).ok /\ ~ParseI32(DeString(d).val).ok
            THEN Ok(BDocument(<< Entry(k, BString(DeString(d).val)) >>))
            ELSE numberInt_arm(d))
      [] k = Str.numberLong -> numberLong_arm(d)
      [] k = Str.numberDouble -> numberDouble_arm(d)
      [] k = Str.binary -> ParseBinary(d)
      [] k = Str.uuid -> uuid_arm(d)
      [] k = Str.timestamp -> ParseTimestamp(d)
      [] k = Str.regularExpression -> ParseRegex(d)
      [] k = Str.dbPointer -> ParseDbPointer(d)
      [] k = Str.date -> ParseDateTime(d)
      [] k = Str.maxKey -> ParseKey(d, BMaxKey)
      [] k = Str.minKey -> ParseKey(d, BMinKey)
      [] k = Str.undefined -> ParseUndefined(d)
      [] k = Str.numberDecimal -> numberDecimal_arm(d)
      [] k = Str.numberDecimalBytes -> numberDecimalBytes_arm(d)

\* the match arm of a single-value special key
single_value_arm(k, d) ==
    CASE k = Str.oid -> oid_arm(d)
      [] k = Str.symbol -> symbol_arm(d)
      [] k = Str.numberInt -> numberInt_arm(d)
      [] k = Str.numberLong -> numberLong_arm(d)
      [] k = Str.numberDouble -> numberDouble_arm(d)
      [] k = Str.binary -> ParseBinary(d)
      [] k = Str.uuid -> uuid_arm(d)
      [] k = Str.timestamp -> ParseTimestamp(d)
      [] k = Str.regularExpression -> ParseRegex(d)
      [] k = Str.dbPointer -> ParseDbPointer(d)
      [] k = Str.date -> ParseDateTime(d)
      [] k = Str.maxKey -> ParseKey(d, BMaxKey)
      [] k = Str.minKey -> ParseKey(d, BMinKey)
      [] k = Str.undefined -> ParseUndefined(d)
      [] k = Str.numberDecimal -> numberDecimal_arm(d)
      [] k = Str.numberDecimalBytes -> numberDecimalBytes_arm(d)

\* Document::insert: an existing key keeps its place and takes the new value
DocInsert(doc, k, v) ==
    IF k \in Keys(doc)
    THEN [doc EXCEPT ![Field(doc, k)] = Entry(k, v)]
    ELSE Append(doc, Entry(k, v))

UnknownField(key, expected) ==
    [kind |-> "unknown_field", field |-> key, expected |-> expected]

MissingField(field) == [kind |-> "missing_field", field |-> field]

\* what a visit_map call leaves behind: its result, the map access as it left
\* it, and how many times it called next_key and next_value
Ret(res, m, nk, nv) == [res |-> res, m |-> m, nk |-> nk, nv |-> nv]

RECURSIVE BsonVisitor(_)
RECURSIVE visit_seq_loop(_, _, _)
RECURSIVE visit_map_loop(_, _, _, _)

\* BsonVisitor::visit_seq over a SeqDeserializer
visit_seq_loop(iter, options, values) ==
    IF Len(iter) = 0 THEN Ok(BArray(values))
    ELSE LET Push(elem) ==
                 IF ~elem.ok THEN elem
                 ELSE visit_seq_loop(Tail(iter), options, Append(values, elem.val))
         IN  Push(BsonVisitor(deserialize_any(DeserializerNewWithOptions(iter[1], options))))

visit_seq(visitor) == visit_seq_loop(visitor.iter, visitor.options, <<>>)

\* Document::deserialize: deserialize_map(BsonVisitor), then the result must
\* be a Bson::Document
DeDocument(d) ==
    LET AndThen(bson) ==
            IF ~bson.ok THEN bson
            ELSE IF bson.val.t = "Document" THEN Ok(bson.val.v)
            ELSE Err([kind |-> "invalid_type", unexp |-> "Map",
                      want |-> "expected document, found extended JSON data type"])
    IN  AndThen(BsonVisitor(d))

\* a plausible slip: a second key other than "$scope" is skipped
code_arm_lenient(m, d, nk, nv) ==
    LET WithScope(code, value, scope) ==
            IF ~scope.ok THEN Ret(scope, value.m, nk + 1, nv + 1)
            ELSE Ret(Ok(BJavaScriptCodeWithScope(code.val, scope.val)),
                     value.m, nk + 1, nv + 1)
        Scope(code, value) == WithScope(code, value, DeDocument(value.d))
        NextKey(code, key) ==
            IF ~key.key.ok THEN Ret(key.key, key.m, nk + 1, nv)
            ELSE IF key.key.val = None
            THEN Ret(Ok(BJavaScriptCode(code.val)), key.m, nk + 1, nv)
            ELSE IF Unwrap(key.key.val) = Str.scope
            THEN Scope(code, next_value_seed(key.m))
            ELSE Ret(Ok(BJavaScriptCode(code.val)), key.m, nk + 1, nv)
        Code(code) ==
            IF ~code.ok THEN Ret(code, m, nk, nv) ELSE NextKey(code, next_key_seed(m))
    IN  Code(DeString(d))

\* the "$code" arm, after its next_value
code_arm(m, d, nk, nv) ==
    LET WithScope(code, value, scope) ==
            IF ~scope.ok THEN Ret(scope, value.m, nk + 1, nv + 1)
            ELSE Ret(Ok(BJavaScriptCodeWithScope(code.val, scope.val)),
                     value.m, nk + 1, nv + 1)
        Scope(code, value) == WithScope(code, value, DeDocument(value.d))
        NextKey(code, key) ==
            IF ~key.key.ok THEN Ret(key.key, key.m, nk + 1, nv)
            ELSE IF key.key.val = None
            THEN Ret(Ok(BJavaScriptCode(code.val)), key.m, nk + 1, nv)
            ELSE IF Unwrap(key.key.val) = Str.scope
            THEN Scope(code, next_value_seed(key.m))
            ELSE Ret(Err(UnknownField(Unwrap(key.key.val), <<Str.scope>>)), key.m, nk + 1, nv)
        Code(code) ==
            IF ~code.ok THEN Ret(code, m, nk, nv) ELSE NextKey(code, next_key_seed(m))
    IN  Code(DeString(d))

\* a plausible slip: "$scope" alone handled like "$code" alone
scope_arm_alone_ok(m, d, nk, nv) ==
    LET WithCode(scope, value, code) ==
            IF ~code.ok THEN Ret(code, value.m, nk + 1, nv + 1)
            ELSE Ret(Ok(BJavaScriptCodeWithScope(code.val, scope.val)),
                     value.m, nk + 1, nv + 1)
        Code(scope, value) == WithCode(scope, value, DeString(value.d))
        NextKey(scope, key) ==
            IF ~key.key.ok THEN Ret(key.key, key.m, nk + 1, nv)
            ELSE IF key.key.val = None
            THEN Ret(Ok(BDocument(scope.val)), key.m, nk + 1, nv)
            ELSE IF Unwrap(key.key.val) = Str.code
            THEN Code(scope, next_value_seed(key.m))
            ELSE Ret(Err(UnknownField(Unwrap(key.key.val), <<Str.code>>)), key.m, nk + 1, nv)
        Scope(scope) ==
            IF ~scope.ok THEN Ret(scope, m, nk, nv) ELSE NextKey(scope, next_key_seed(m))
    IN  Scope(DeDocument(d))

\* the "$scope" arm, after its next_value
scope_arm(m, d, nk, nv) ==
    LET WithCode(scope, value, code) ==
            IF ~code.ok THEN Ret(code, value.m, nk + 1, nv + 1)
            ELSE Ret(Ok(BJavaScriptCodeWithScope(code.val, scope.val)),
                     value.m, nk + 1, nv + 1)
        Code(scope, value) == WithCode(scope, value, DeString(value.d))
        NextKey(scope, key) ==
            IF ~key.key.ok THEN Ret(key.key, key.m, nk + 1, nv)
            ELSE IF key.key.val = None
            THEN Ret(Err(MissingField(Str.code)), key.m, nk + 1, nv)
            ELSE IF Unwrap(key.key.val) = Str.code
            THEN Code(scope, next_value_seed(key.m))
            ELSE Ret(Err(UnknownField(Unwrap(key.key.val), <<Str.code>>)), key.m, nk + 1, nv)
        Scope(scope) ==
            IF ~scope.ok THEN Ret(scope, m, nk, nv) ELSE NextKey(scope, next_key_seed(m))
    IN  Scope(DeDocument(d))

\* a plausible slip: after a single-value special key the loop asks for the
\* next key and rejects a map that has one
visit_map_loop_strict(m, doc, nk, nv) ==
    LET Insert(k, value, v) ==
            IF ~v.ok THEN Ret(v, value.m, nk + 1, nv + 1)
            ELSE visit_map_loop(value.m, DocInsert(doc, k, v.val), nk + 1, nv + 1)
        After(k, value, after) ==
            IF after.key.ok /\ after.key.val # None
            THEN Ret(Err(UnknownField(Unwrap(after.key.val), <<>>)), after.m, nk + 2, nv + 1)
            ELSE Ret(single_value_arm(k, value.d), after.m, nk + 2, nv + 1)
        Match(k, value) ==
            IF k = Str.code THEN code_arm(value.m, value.d, nk + 1, nv + 1)
            ELSE IF k = Str.scope THEN scope_arm(value.m, value.d, nk + 1, nv + 1)
            ELSE IF k \in SingleValueKeys THEN After(k, value, next_key_seed(value.m))
            ELSE Insert(k, value, BsonVisitor(value.d))
        NextKey(key) ==
            IF ~key.key.ok THEN Ret(key.key, key.m, nk + 1, nv)
            ELSE IF key.key.val = None THEN Ret(Ok(BDocument(doc)), key.m, nk + 1, nv)
            ELSE Match(Unwrap(key.key.val), next_value_seed(key.m))
    IN  NextKey(next_key_seed(m))

\* the loop of BsonVisitor::visit_map: every key it reads goes through the
\* match on the special keys
visit_map_loop(m, doc, nk, nv) ==
    LET Insert(k, value, v) ==
            IF ~v.ok THEN Ret(v, value.m, nk + 1, nv + 1)
            ELSE visit_map_loop(value.m, DocInsert(doc, k, v.val), nk + 1, nv + 1)
        Match(k, value) ==
            IF k = Str.code THEN code_arm(value.m, value.d, nk + 1, nv + 1)
            ELSE IF k = Str.scope THEN scope_arm(value.m, value.d, nk + 1, nv + 1)
            ELSE IF k \in SingleValueKeys
            THEN Ret(single_value_arm(k, value.d), value.m, nk + 1, nv + 1)
            ELSE Insert(k, value, BsonVisitor(value.d))
        NextKey(key) ==
            IF ~key.key.ok THEN Ret(key.key, key.m, nk + 1, nv)
            ELSE IF key.key.val = None THEN Ret(Ok(BDocument(doc)), key.m, nk + 1, nv)
            ELSE Match(Unwrap(key.key.val), next_value_seed(key.m))
    IN  NextKey(next_key_seed(m))

visit_map(visitor) == visit_map_loop(visitor, <<>>, 0, 0)

\* the Visitor methods of BsonVisitor, by the dispatch d it receives
BsonVisitor(d) ==
    IF ~d.visited THEN Err(d.err)
    ELSE CASE d.call = "visit_bool" -> Ok(BBoolean(d.param))
           [] d.call = "visit_i32" -> Ok(BInt32(d.param))
           [] d.call = "visit_i64" -> Ok(BInt64(d.param))
           [] d.call = "visit_f64" -> Ok(BDouble(d.param))
           [] d.call = "visit_string" -> Ok(BString(d.param))
           [] d.call \in {"visit_none", "visit_unit"} -> Ok(BNull)
           [] d.call \in {"visit_some", "visit_newtype_struct"} ->
                BsonVisitor(deserialize_any(d.param))
           [] d.call = "visit_seq" -> visit_seq(d.param)
           [] d.call = "visit_map" -> visit_map(d.param).res
           [] d.call \in {"visit_bytes", "visit_byte_buf"} ->
                Ok(BBinary(BinarySubtype.Generic, d.param))
           [] OTHER -> Err(InvalidType(d, "a Bson"))

----------------------------------------------------------------------------
(* visit_map over the documents of a bounded universe *)

OidBytes == <<171, 205, 239, 1, 35, 69, 103, 137, 171, 205, 239, 1>>
OidHex == HexEncode(OidBytes)
UuidBytes == OidBytes \o <<35, 69, 103, 137>>
UuidStr ==
    LET h == HexEncode(UuidBytes)
    IN  SubSeq(h, 1, 8) \o <<45>> \o SubSeq(h, 9, 12) \o <<45>> \o SubSeq(h, 13, 16)
        \o <<45>> \o SubSeq(h, 17, 20) \o <<45>> \o SubSeq(h, 21, 32)

BinaryBodyDoc == << Entry(Str.base64, BString(Str.Zm9v)), Entry(Str.subType, BString(Str.s00)) >>
TimestampBodyDoc == << Entry(Str.t, BInt32(1)), Entry(Str.i, BInt32(2)) >>
RegexBodyDoc == << Entry(Str.pattern, BString(Str.foo)), Entry(Str.options, BString(Str.xi)) >>
DbPointerBodyDoc ==
    << Entry(Str.ref, BString(Str.foo)),
       Entry(Str.id, BDocument(<< Entry(Str.oid, BString(OidHex)) >>)) >>
Int64BodyDoc == << Entry(Str.numberLong, BString(Str.s12)) >>

\* the values an entry can hold
Values ==
    { BString(Str.foo), BString(Str.s12), BString(OidHex), BString(UuidStr),
      BString(Str.Infinity),
      BInt32(1), BInt32(2), BInt64(I64FromI32(-1)),
      BBoolean(TRUE), BBoolean(FALSE), BNull,
      BDocument(<<>>), BDocument(<< Entry(Str.a, BInt32(1)) >>),
      BDocument(<< Entry(Str.oid, BString(OidHex)) >>),
      BDocument(BinaryBodyDoc), BDocument(TimestampBodyDoc), BDocument(RegexBodyDoc),
      BDocument(DbPointerBodyDoc), BDocument(Int64BodyDoc),
      BBinary(BinarySubtype.Generic, OidBytes), BBinary(BinarySubtype.Generic, UuidBytes),
      BBinary(BinarySubtype.Uuid, UuidBytes),
      BObjectId(OidBytes), BDecimal128(UuidBytes),
      BArray(<< BInt32(1), BInt32(2) >>), BSymbol(Str.foo) }

FirstKeys == SpecialKeys \cup {Str.a, Str.oidish}

\* the entries that can follow the first one
TailEntries ==
    { Entry(Str.scope, BDocument(<<>>)), Entry(Str.scope, BDocument(<< Entry(Str.a, BInt32(1)) >>)),
      Entry(Str.code, BString(Str.foo)),
      Entry(Str.oid, BString(OidHex)), Entry(Str.symbol, BString(Str.bar)),
      Entry(Str.b, BNull), Entry(Str.bar, BInt32(1)) }

MaxTail == 2

RECURSIVE Tails(_)
Tails(n) ==
    IF n = 0 THEN { <<>> }
    ELSE Tails(n - 1)
         \cup { Append(t, e) : t \in { u \in Tails(n - 1) : Len(u) = n - 1 },
                               e \in TailEntries }

\* the keys of a Document are distinct
DistinctKeys(doc) == \A i, j \in 1..Len(doc) : doc[i].k = doc[j].k => i = j

MapInputs ==
    { <<>> } \cup
    { d \in { <<Entry(k, v)>> \o t : k \in FirstKeys, v \in Values, t \in Tails(MaxTail) } :
        DistinctKeys(d) }

InitMap ==
    /\ input \in MapInputs
    /\ op = "init"
    /\ out = NoOut

\* BsonVisitor.visit_map(MapDeserializer::new(doc)), as Deserializer's
\* Document arm calls it
VisitMap ==
    /\ op = "init"
    /\ op' = "visit_map"
    /\ out' = visit_map(MapDeserializerNew(input, DefaultOptions))
    /\ UNCHANGED input

\* Document::deserialize(Deserializer::new(Bson::Document(doc)))
DeserializeDocument ==
    /\ op = "init"
    /\ op' = "Document::deserialize"
    /\ out' = DeDocument(deserialize_any(DeserializerNew(BDocument(input))))
    /\ UNCHANGED input

NextMap == VisitMap \/ DeserializeDocument

SpecMap == InitMap /\ [][NextMap]_vars

VisitMapDone == op = "visit_map"

\* what a value becomes as an ordinary entry: Bson::deserialize of it
AsEntryValue(v) == BsonVisitor(deserialize_any(DeserializerNew(v)))

\* a Bson that deserializes to itself whatever the keys around it
IsPlainValue(v) == v.t \in {"String", "Int32", "Int64", "Boolean", "Null"}

IsPlainDocument(v) ==
    /\ v.t = "Document"
    /\ \A i \in 1..Len(v.v) : v.v[i].k \notin SpecialKeys /\ IsPlainValue(v.v[i].v)

\* C2: the special-key check happens only on the first key: when the first
\* key is not a special key (and every value can be an entry), the result is
\* a Document holding every entry in order, later special keys included.
C2_FirstKeyOnly ==
    (/\ VisitMapDone
     /\ Len(input) > 0
     /\ input[1].k \notin SpecialKeys
     /\ \A i \in 1..Len(input) : AsEntryValue(input[i].v).ok)
    => /\ out.res.ok
       /\ out.res.val.t = "Document"
       /\ out.res.val.v = [i \in 1..Len(input) |->
                             Entry(input[i].k, AsEntryValue(input[i].v).val)]

\* {"a": 1, "$oid": "abcdef0123456789abcdef01"} went in and an ObjectId came
\* out: the entry "a" is gone
C2_LaterKeyTaken ==
    /\ VisitMapDone
    /\ input = << Entry(Str.a, BInt32(1)), Entry(Str.oid, BString(OidHex)) >>
    /\ out.res = Ok(BObjectId(OidBytes))

\* C3: first key "$code" with a string c: followed by "$scope" with a
\* document s the result is CodeWithScope{c, s}; alone it is
\* JavaScriptCode(c); followed by any other key it is an unknown-field error.
C3_CodeArm ==
    (/\ VisitMapDone
     /\ Len(input) > 0
     /\ input[1].k = Str.code
     /\ input[1].v.t = "String")
    => LET c == input[1].v.v
       IN  /\ Len(input) = 1 => out.res = Ok(BJavaScriptCode(c))
           /\ (/\ Len(input) > 1
               /\ input[2].k = Str.scope
               /\ IsPlainDocument(input[2].v))
              => out.res = Ok(BJavaScriptCodeWithScope(c, input[2].v.v))
           /\ (Len(input) > 1 /\ input[2].k # Str.scope)
              => /\ ~out.res.ok
                 /\ out.res.err = UnknownField(input[2].k, <<Str.scope>>)

\* {"$code": "foo", "bar": 1} went in and an unknown-field error came out
C3_Witness ==
    /\ VisitMapDone
    /\ input = << Entry(Str.code, BString(Str.foo)), Entry(Str.bar, BInt32(1)) >>
    /\ ~out.res.ok
    /\ out.res.err.kind = "unknown_field"

\* the same map with its first two entries in the opposite order
Swapped(doc) == << doc[2], doc[1] >> \o SubSeq(doc, 3, Len(doc))

\* C4: {"$scope": s, "$code": c} gives the CodeWithScope{c, s} that the
\* opposite order gives; "$scope" followed by another key is an unknown-field
\* error; "$scope" alone is a missing-field error naming "$code".
C4_ScopeArm ==
    (/\ VisitMapDone
     /\ Len(input) > 0
     /\ input[1].k = Str.scope)
    => LET swapped == visit_map(MapDeserializerNew(Swapped(input), DefaultOptions)).res
       IN  /\ (Len(input) > 1 /\ input[2].k = Str.code)
              => /\ (out.res.ok \/ swapped.ok) => out.res = swapped
                 /\ (IsPlainDocument(input[1].v) /\ input[2].v.t = "String")
                    => out.res = Ok(BJavaScriptCodeWithScope(input[2].v.v, input[1].v.v))
           /\ (Len(input) > 1 /\ input[2].k # Str.code /\ IsPlainDocument(input[1].v))
              => /\ ~out.res.ok
                 /\ out.res.err = UnknownField(input[2].k, <<Str.code>>)
           /\ (Len(input) = 1 /\ IsPlainDocument(input[1].v))
              => /\ ~out.res.ok
                 /\ out.res.err = MissingField(Str.code)

\* {"$scope": {"a": 1}} went in and the missing-field error came out
C4_Witness ==
    /\ VisitMapDone
    /\ input = << Entry(Str.scope, BDocument(<< Entry(Str.a, BInt32(1)) >>)) >>
    /\ out.res = Err(MissingField(Str.code))

\* the first place a special key stands at
FirstSpecial(doc, i) ==
    /\ i \in 1..Len(doc)
    /\ doc[i].k \in SpecialKeys
    /\ \A j \in 1..(i - 1) : doc[j].k \notin SpecialKeys

\* C5: when visit_map meets a single-value special key it calls next_value
\* once for it and returns without another next_key: the entries after it
\* stay in the map access, and the result is the one the map gives without
\* them.
C5_SingleValueReturns ==
    VisitMapDone =>
        \A i \in 1..Len(input) :
            (/\ FirstSpecial(input, i)
             /\ input[i].k \in SingleValueKeys
             /\ out.nk >= i)
            => /\ out.nk = i
               /\ out.nv = i
               /\ out.m.iter = SubSeq(input, i + 1, Len(input))
               /\ out.res = visit_map(MapDeserializerNew(SubSeq(input, 1, i),
                                                         DefaultOptions)).res

\* {"$symbol": "foo", "$scope": {}, "b": null} went in: Symbol("foo") came
\* out and both later entries are still in the map access
C5_Witness ==
    /\ VisitMapDone
    /\ input = << Entry(Str.symbol, BString(Str.foo)), Entry(Str.scope, BDocument(<<>>)),
                  Entry(Str.b, BNull) >>
    /\ out.res = Ok(BSymbol(Str.foo))
    /\ out.nk = 1 /\ out.nv = 1
    /\ Len(out.m.iter) = 2

\* the variants a special key can give
VariantsOf(k) ==
    CASE k = Str.oid -> {"ObjectId"}
      [] k = Str.symbol -> {"Symbol"}
      [] k = Str.numberInt -> {"Int32"}
      [] k = Str.numberLong -> {"Int64"}
      [] k = Str.numberDouble -> {"Double"}
      [] k \in {Str.binary, Str.uuid} -> {"Binary"}
      [] k = Str.code -> {"JavaScriptCode", "JavaScriptCodeWithScope"}
      [] k = Str.scope -> {"JavaScriptCodeWithScope"}
      [] k = Str.timestamp -> {"Timestamp"}
      [] k = Str.regularExpression -> {"RegularExpression"}
      [] k = Str.dbPointer -> {"DbPointer"}
      [] k = Str.date -> {"DateTime"}
      [] k = Str.maxKey -> {"MaxKey"}
      [] k = Str.minKey -> {"MinKey"}
      [] k = Str.undefined -> {"Undefined"}
      [] k \in {Str.numberDecimal, Str.numberDecimalBytes} -> {"Decimal128"}

\* C6: a map whose first key is a special key gives that key's variant or an
\* error, never a Document; Document::deserialize of it is an error.
C6_NeverDowngraded ==
    (Len(input) > 0 /\ input[1].k \in SpecialKeys)
    => /\ VisitMapDone => (out.res.ok => out.res.val.t \in VariantsOf(input[1].k))
       /\ op = "Document::deserialize" => ~out.ok

\* {"$numberInt": "foo"} went in and an error came out
C6_Witness ==
    /\ VisitMapDone
    /\ input = << Entry(Str.numberInt, BString(Str.foo)) >>
    /\ out.res = Err(InvalidStr(Str.foo, "32-bit signed integer as a string"))

----------------------------------------------------------------------------
(* Deserializer::deserialize_enum, EnumDeserializer and VariantDeserializer *)

\* EnumDeserializer::variant_seed for a String seed: the variant name and the
\* VariantDeserializer
variant_seed(self) ==
    LET Variant(value) ==
            IF ~value.ok THEN value
            ELSE Ok([variant |-> value.val, access |-> self.deserializer])
    IN  Variant(DeString(deserialize_any(
            DeserializerNewWithOptions(self.val, self.deserializer.options))))

\* VariantDeserializer::unit_variant
unit_variant(self) ==
    IF self.val = None THEN Ok(<<>>)
    ELSE LET Unit(r) == IF r.ok THEN Ok(<<>>) ELSE r
         IN  Unit(BsonVisitor(deserialize_any(
                 DeserializerNewWithOptions(Unwrap(self.val), self.options))))

\* VariantDeserializer::newtype_variant_seed for a Bson seed
newtype_variant_seed(self) ==
    IF self.val = None THEN Err(EndOfStream)
    ELSE BsonVisitor(deserialize_any(
             DeserializerNewWithOptions(Unwrap(self.val), self.options)))

\* a plausible slip: visit_seq whatever the length, as deserialize_next does
SeqDeserializer_deserialize_any_always_seq(self) == Visit("visit_seq", self)

\* SeqDeserializer::deserialize_any
SeqDeserializer_deserialize_any(self) ==
    IF self.len = 0 THEN Visit("visit_unit", NoParam) ELSE Visit("visit_seq", self)

\* VariantDeserializer::tuple_variant
tuple_variant(self) ==
    IF self.val = None THEN Fail(EndOfStream)
    ELSE LET v == Unwrap(self.val)
         IN  IF v.t = "Array"
             THEN SeqDeserializer_deserialize_any(SeqDeserializerOf(v.v, self.options))
             ELSE Fail([kind |-> "invalid_type", unexp |-> v.t, want |-> "expected a tuple"])

\* VariantDeserializer::struct_variant
struct_variant(self) ==
    IF self.val = None THEN Fail(EndOfStream)
    ELSE LET v == Unwrap(self.val)
         IN  IF v.t = "Document"
             THEN Visit("visit_map", MapDeserializerNew(v.v, self.options))
             ELSE Fail([kind |-> "invalid_type", unexp |-> v.t, want |-> "expected a struct"])

\* the values handed to deserialize_enum: every value, every value as the
\* payload of a one-entry document, and documents of two and three entries
EnumInputs ==
    Values
    \cup { BDocument(<< Entry(k, v) >>) : k \in {Str.a, Str.foo}, v \in Values }
    \cup { BDocument(<< Entry(Str.a, BNull), e >> \o t) :
             e \in TailEntries, t \in { <<>>, << Entry(Str.foo, BInt32(1)) >> } }

InitEnum ==
    /\ input \in EnumInputs
    /\ op = "init"
    /\ out = NoOut

DeserializeEnum ==
    /\ op = "init"
    /\ op' = "deserialize_enum"
    /\ out' = deserialize_enum(DeserializerNew(input))
    /\ UNCHANGED input

\* the visitor's visit_enum asks the EnumAccess for the variant
VariantSeed ==
    /\ op = "deserialize_enum"
    /\ out.visited
    /\ op' = "variant_seed"
    /\ out' = variant_seed(out.param)
    /\ UNCHANGED input

UnitVariant ==
    /\ op = "variant_seed"
    /\ out.ok
    /\ op' = "unit_variant"
    /\ out' = unit_variant(out.val.access)
    /\ UNCHANGED input

NewtypeVariant ==
    /\ op = "variant_seed"
    /\ out.ok
    /\ op' = "newtype_variant_seed"
    /\ out' = newtype_variant_seed(out.val.access)
    /\ UNCHANGED input

TupleVariant ==
    /\ op = "variant_seed"
    /\ out.ok
    /\ op' = "tuple_variant"
    /\ out' = tuple_variant(out.val.access)
    /\ UNCHANGED input

StructVariant ==
    /\ op = "variant_seed"
    /\ out.ok
    /\ op' = "struct_variant"
    /\ out' = struct_variant(out.val.access)
    /\ UNCHANGED input

NextEnum ==
    \/ DeserializeEnum
    \/ VariantSeed
    \/ UnitVariant
    \/ NewtypeVariant
    \/ TupleVariant
    \/ StructVariant

SpecEnum == InitEnum /\ [][NextEnum]_vars

\* the five shapes deserialize_enum tells apart
EnumShape(v) ==
    CASE v.t = "String" -> "string"
      [] v.t = "Document" /\ Len(v.v) = 0 -> "empty"
      [] v.t = "Document" /\ Len(v.v) = 1 -> "single"
      [] v.t = "Document" /\ Len(v.v) > 1 -> "extra"
      [] OTHER -> "other"

\* C8: a one-entry document goes to visit_enum with its key and its value; a
\* string goes to visit_enum with no payload; an empty document, a document
\* of two or more entries (the error names the second key) and any other
\* value are three errors, and no two inputs of different shape give the
\* same error.
C8_EnumOutcomes ==
    /\ op = "deserialize_enum" =>
        LET shape == EnumShape(input)
        IN  /\ shape = "single" =>
                out = Visit("visit_enum",
                            EnumDeserializer(BString(input.v[1].k), Some(input.v[1].v),
                                             DefaultOptions))
            /\ shape = "string" =>
                out = Visit("visit_enum", EnumDeserializer(input, None, DefaultOptions))
            /\ shape = "empty" =>
                /\ ~out.visited
                /\ out.err.kind = "invalid_value"
                /\ out.err.unexp = "empty document"
            /\ shape = "extra" =>
                /\ ~out.visited
                /\ out.err.kind = "invalid_value"
                /\ out.err.unexp = "Map"
                /\ out.err.xkey = input.v[2].k
            /\ shape = "other" =>
                /\ ~out.visited
                /\ out.err.kind = "invalid_type"
            /\ ~out.visited =>
                \A other \in EnumInputs :
                    EnumShape(other) # shape =>
                        deserialize_enum(DeserializerNew(other)) # out
    /\ (op = "variant_seed" /\ EnumShape(input) = "single") =>
        /\ out.ok
        /\ out.val.variant = input.v[1].k
        /\ out.val.access.val = Some(input.v[1].v)

\* {"a": null, "$oid": ...} went in and the error naming "$oid" came out
C8_Witness ==
    /\ op = "deserialize_enum"
    /\ input = BDocument(<< Entry(Str.a, BNull), Entry(Str.oid, BString(OidHex)) >>)
    /\ ~out.visited
    /\ out.err.xkey = Str.oid

----------------------------------------------------------------------------
(* Deserializer::deserialize_newtype_struct and the hint of deserialize_next *)

\* the values handed to the Deserializer: every value, and binaries of
\* every subtype
HintInputs ==
    Values
    \cup { BBinary(st, bytes) :
             st \in { BinarySubtype.Generic, BinarySubtype.Function, BinarySubtype.BinaryOld,
                      BinarySubtype.UuidOld, BinarySubtype.Uuid, BinarySubtype.Md5,
                      BinarySubtype.Encrypted, BinarySubtype.Column,
                      BinarySubtype.UserDefined },
             bytes \in { <<>>, Str.foo, UuidBytes } }

InitHint ==
    /\ input \in HintInputs
    /\ op = "init"
    /\ out = NoOut

DeserializeNewtypeStruct(name) ==
    /\ op = "init"
    /\ op' = name
    /\ out' = deserialize_newtype_struct(DeserializerNew(input), name)
    /\ UNCHANGED input

DeserializeAny ==
    /\ op = "init"
    /\ op' = "deserialize_any"
    /\ out' = deserialize_any(DeserializerNew(input))
    /\ UNCHANGED input

NextHint ==
    \/ \E name \in NewtypeNames : DeserializeNewtypeStruct(name)
    \/ DeserializeAny

SpecHint == InitHint /\ [][NextHint]_vars

\* C9: under the UUID newtype name deserialize_next fails before any visitor
\* method exactly when the value is a Binary whose subtype is not Uuid;
\* every other value is dispatched as it is without a hint.
C9_SubtypeHint ==
    op = "UUID_NEWTYPE_NAME" =>
        /\ ~out.visited <=> (input.t = "Binary" /\ input.subtype # BinarySubtype.Uuid)
        /\ ~out.visited => out.err = SubtypeMismatch(BinarySubtype.Uuid, input.subtype)
        /\ out.visited => out = deserialize_any(DeserializerNew(input))

\* a Binary of subtype Md5 went in under the UUID name and the error came out
C9_Witness ==
    /\ op = "UUID_NEWTYPE_NAME"
    /\ input = BBinary(BinarySubtype.Md5, UuidBytes)
    /\ ~out.visited

----------------------------------------------------------------------------
(* The wire format: elements, documents and arrays as bytes *)

\* enum ElementType, by its tag byte
ElementType ==
    [ Double |-> 1, String |-> 2, EmbeddedDocument |-> 3, Array |-> 4, Binary |-> 5,
      Undefined |-> 6, ObjectId |-> 7, Boolean |-> 8, DateTime |-> 9, Null |-> 10,
      RegularExpression |-> 11, DbPointer |-> 12, JavaScriptCode |-> 13, Symbol |-> 14,
      JavaScriptCodeWithScope |-> 15, Int32 |-> 16, Timestamp |-> 17, Int64 |-> 18,
      Decimal128 |-> 19, MaxKey |-> 127, MinKey |-> 255 ]

ElementTypeNames == DOMAIN ElementType

\* RawBsonRef::element_type, by name: a RawBsonRef is a record like a Bson,
\* its Array and Document holding the bytes of the nested document
element_type(self) == IF self.t = "Document" THEN "EmbeddedDocument" ELSE self.t

\* write_string: the length with the nul, the bytes, the nul
write_string(s) == I32ToLeBytes(Len(s) + 1) \o s \o <<0>>

\* CStr::append_to: the bytes, the nul
write_cstring(s) == s \o <<0>>

\* a plausible slip: the four bytes of the legacy inner length not counted
RawBinaryRef_len_plain(b) == Len(b.bytes)

\* RawBinaryRef::len
RawBinaryRef_len(b) ==
    IF b.subtype = BinarySubtype.BinaryOld THEN Len(b.bytes) + 4 ELSE Len(b.bytes)

\* a plausible slip: the nul of the code string not counted
RawJavaScriptCodeWithScopeRef_len_without_nul(self) ==
    4 + 4 + Len(self.code) + Len(self.scope)

\* RawJavaScriptCodeWithScopeRef::len
RawJavaScriptCodeWithScopeRef_len(self) == 4 + 4 + Len(self.code) + 1 + Len(self.scope)

\* a plausible slip: the legacy inner length of BinaryOld left out
append_to_without_inner_length(self) ==
    CASE self.t \in {"Int64", "Double", "DateTime", "ObjectId", "Decimal128",
                     "Array", "Document"} -> self.v
      [] self.t = "Int32" -> I32ToLeBytes(self.v)
      [] self.t = "Binary" ->
           I32ToLeBytes(RawBinaryRef_len(self)) \o <<self.subtype>> \o self.bytes
      [] self.t \in {"String", "JavaScriptCode", "Symbol"} -> write_string(self.v)
      [] self.t = "Boolean" -> <<IF self.v THEN 1 ELSE 0>>
      [] self.t = "RegularExpression" ->
           write_cstring(self.pattern) \o write_cstring(self.options)
      [] self.t = "JavaScriptCodeWithScope" ->
           I32ToLeBytes(RawJavaScriptCodeWithScopeRef_len(self))
           \o write_string(self.code) \o self.scope
      [] self.t = "Timestamp" -> self.increment \o self.time
      [] self.t = "DbPointer" -> write_string(self.namespace) \o self.id
      [] self.t \in {"Null", "Undefined", "MinKey", "MaxKey"} -> <<>>

\* a plausible slip: a boolean written as wide as an int32
append_to_boolean_wide(self) ==
    CASE self.t \in {"Int64", "Double", "DateTime", "ObjectId", "Decimal128",
                     "Array", "Document"} -> self.v
      [] self.t = "Int32" -> I32ToLeBytes(self.v)
      [] self.t = "Binary" ->
           I32ToLeBytes(RawBinaryRef_len(self)) \o <<self.subtype>>
           \o (IF self.subtype = BinarySubtype.BinaryOld
               THEN I32ToLeBytes(RawBinaryRef_len(self) - 4) ELSE <<>>)
           \o self.bytes
      [] self.t \in {"String", "JavaScriptCode", "Symbol"} -> write_string(self.v)
      [] self.t = "Boolean" -> I32ToLeBytes(IF self.v THEN 1 ELSE 0)
      [] self.t = "RegularExpression" ->
           write_cstring(self.pattern) \o write_cstring(self.options)
      [] self.t = "JavaScriptCodeWithScope" ->
           I32ToLeBytes(RawJavaScriptCodeWithScopeRef_len(self))
           \o write_string(self.code) \o self.scope
      [] self.t = "Timestamp" -> self.increment \o self.time
      [] self.t = "DbPointer" -> write_string(self.namespace) \o self.id
      [] self.t \in {"Null", "Undefined", "MinKey", "MaxKey"} -> <<>>

\* RawBsonRef::append_to: the bytes appended to dest
append_to(self) ==
    CASE self.t \in {"Int64", "Double", "DateTime", "ObjectId", "Decimal128",
                     "Array", "Document"} -> self.v
      [] self.t = "Int32" -> I32ToLeBytes(self.v)
      [] self.t = "Binary" ->
           I32ToLeBytes(RawBinaryRef_len(self)) \o <<self.subtype>>
           \o (IF self.subtype = BinarySubtype.BinaryOld
               THEN I32ToLeBytes(RawBinaryRef_len(self) - 4) ELSE <<>>)
           \o self.bytes
      [] self.t \in {"String", "JavaScriptCode", "Symbol"} -> write_string(self.v)
      [] self.t = "Boolean" -> <<IF self.v THEN 1 ELSE 0>>
      [] self.t = "RegularExpression" ->
           write_cstring(self.pattern) \o write_cstring(self.options)
      [] self.t = "JavaScriptCodeWithScope" ->
           I32ToLeBytes(RawJavaScriptCodeWithScopeRef_len(self))
           \o write_string(self.code) \o self.scope
      [] self.t = "Timestamp" -> self.increment \o self.time
      [] self.t = "DbPointer" -> write_string(self.namespace) \o self.id
      [] self.t \in {"Null", "Undefined", "MinKey", "MaxKey"} -> <<>>

\* a plausible slip: the options of a regular expression copied as they are
RawBsonFrom_options_copied(value) == value

\* From<RawBsonRef> for RawBson: every payload is copied as it is, and the
\* options of a regular expression are sorted
RawBsonFrom(value) ==
    IF value.t = "RegularExpression"
    THEN BRegularExpression(value.pattern, SortChars(value.options))
    ELSE value

\* an element on the wire: tag, key as a C string, payload
WireElement(tag, key, payload) == <<tag>> \o write_cstring(key) \o payload

RECURSIVE Concat(_)
Concat(seqs) == IF Len(seqs) = 0 THEN <<>> ELSE seqs[1] \o Concat(Tail(seqs))

\* a document on the wire: total length, the elements, the terminating nul
WireDocument(elements) ==
    I32ToLeBytes(4 + Len(Concat(elements)) + 1) \o Concat(elements) \o <<0>>

\* RawDocumentBuf built by appending each (key, value) in order
RawDocumentBufFrom(entries) ==
    WireDocument([i \in 1..Len(entries) |->
                    WireElement(ElementType[element_type(entries[i].v)], entries[i].k,
                                append_to(entries[i].v))])

Malformed(message) == [kind |-> "MalformedValue", message |-> message]

\* the minimum size of a document: the length and the terminator
MIN_BSON_DOCUMENT_SIZE == 4 + 1

\* RawDocument::from_bytes: the declared length is the length of the slice
\* and the last byte is the terminator
RawDocument_from_bytes(bytes) ==
    IF Len(bytes) < MIN_BSON_DOCUMENT_SIZE THEN Err(Malformed("document too short"))
    ELSE IF I32FromLeBytes(SubSeq(bytes, 1, 4)) # Len(bytes)
    THEN Err(Malformed("document length incorrect"))
    ELSE IF bytes[Len(bytes)] # 0 THEN Err(Malformed("document not null-terminated"))
    ELSE Ok(bytes)

\* the int32 at position p, or -1 when fewer than four bytes are left
I32At(bytes, p) ==
    IF p + 3 > Len(bytes) THEN -1 ELSE I32FromLeBytes(SubSeq(bytes, p, p + 3))

\* the position of the first nul at or after p, or 0 when there is none
CStrEnd(bytes, p) ==
    IF \E i \in p..Len(bytes) : bytes[i] = 0
    THEN CHOOSE i \in p..Len(bytes) : bytes[i] = 0 /\ \A j \in p..(i - 1) : bytes[j] # 0
    ELSE 0

\* the size of the payload that starts at p, by tag; -1 when the tag is
\* unknown or the size cannot be read
PayloadSize(tag, bytes, p) ==
    CASE tag \in {ElementType.Double, ElementType.DateTime, ElementType.Int64,
                  ElementType.Timestamp} -> 8
      [] tag \in {ElementType.String, ElementType.JavaScriptCode, ElementType.Symbol} ->
           IF I32At(bytes, p) < 1 THEN -1 ELSE 4 + I32At(bytes, p)
      [] tag \in {ElementType.EmbeddedDocument, ElementType.Array,
                  ElementType.JavaScriptCodeWithScope} ->
           IF I32At(bytes, p) < MIN_BSON_DOCUMENT_SIZE THEN -1 ELSE I32At(bytes, p)
      [] tag = ElementType.Binary ->
           IF I32At(bytes, p) < 0 THEN -1 ELSE 4 + 1 + I32At(bytes, p)
      [] tag = ElementType.ObjectId -> 12
      [] tag = ElementType.Boolean -> 1
      [] tag = ElementType.Int32 -> 4
      [] tag = ElementType.Decimal128 -> 16
      [] tag \in {ElementType.Null, ElementType.Undefined, ElementType.MinKey,
                  ElementType.MaxKey} -> 0
      [] tag = ElementType.RegularExpression ->
           IF CStrEnd(bytes, p) = 0 \/ CStrEnd(bytes, CStrEnd(bytes, p) + 1) = 0 THEN -1
           ELSE CStrEnd(bytes, CStrEnd(bytes, p) + 1) - p + 1
      [] tag = ElementType.DbPointer ->
           IF I32At(bytes, p) < 1 THEN -1 ELSE 4 + I32At(bytes, p) + 12
      [] OTHER -> -1

\* RawIter: the elements from position o on, each Ok([tag, key, payload]);
\* a malformed element is an Err item and ends the iteration
RECURSIVE RawIterFrom(_, _)
RawIterFrom(bytes, o) ==
    IF o >= Len(bytes) THEN <<>>
    ELSE LET Element(kend, size) ==
                 IF size < 0 \/ kend + size >= Len(bytes)
                 THEN << Err(Malformed("malformed element")) >>
                 ELSE << Ok([tag |-> bytes[o], key |-> SubSeq(bytes, o + 1, kend - 1),
                             payload |-> SubSeq(bytes, kend + 1, kend + size)]) >>
                      \o RawIterFrom(bytes, kend + 1 + size)
             Key(kend) ==
                 IF kend = 0 \/ kend >= Len(bytes) \/ ~IsUtf8(SubSeq(bytes, o + 1, kend - 1))
                 THEN << Err(Malformed("malformed key")) >>
                 ELSE Element(kend, PayloadSize(bytes[o], bytes, kend + 1))
         IN  Key(CStrEnd(bytes, o + 1))

RawIter(bytes) == RawIterFrom(bytes, 5)

\* a length-prefixed string that fills p
ReadString(p) ==
    IF Len(p) < 5 \/ I32FromLeBytes(SubSeq(p, 1, 4)) # Len(p) - 4 \/ p[Len(p)] # 0
    THEN Err(Malformed("malformed string"))
    ELSE IF ~IsUtf8(SubSeq(p, 5, Len(p) - 1)) THEN Err(Malformed("invalid UTF-8"))
    ELSE Ok(SubSeq(p, 5, Len(p) - 1))

\* RawElement::value: the payload as a RawBsonRef
ElementValue(tag, p) ==
    LET Str1(r, variant) == IF r.ok THEN Ok([t |-> variant, v |-> r.val]) ELSE r
        Doc(r, variant) == IF r.ok THEN Ok([t |-> variant, v |-> r.val]) ELSE r
        Binary(len, subtype) ==
            IF subtype = BinarySubtype.BinaryOld
            THEN IF len < 4 \/ I32At(p, 6) # len - 4
                 THEN Err(Malformed("old binary subtype has wrong inner declared length"))
                 ELSE Ok(BBinary(subtype, SubSeq(p, 10, Len(p))))
            ELSE Ok(BBinary(subtype, SubSeq(p, 6, Len(p))))
        CodeWithScope(code, scope) ==
            IF ~code.ok THEN code
            ELSE IF ~scope.ok THEN scope
            ELSE Ok(BJavaScriptCodeWithScope(code.val, scope.val))
        DbPointer(ns) ==
            IF ~ns.ok THEN ns ELSE Ok(BDbPointer(ns.val, SubSeq(p, Len(p) - 11, Len(p))))
    IN  CASE tag = ElementType.Double -> Ok(BDouble(p))
          [] tag = ElementType.String -> Str1(ReadString(p), "String")
          [] tag = ElementType.JavaScriptCode -> Str1(ReadString(p), "JavaScriptCode")
          [] tag = ElementType.Symbol -> Str1(ReadString(p), "Symbol")
          [] tag = ElementType.EmbeddedDocument -> Doc(RawDocument_from_bytes(p), "Document")
          [] tag = ElementType.Array -> Doc(RawDocument_from_bytes(p), "Array")
          [] tag = ElementType.Binary -> Binary(I32At(p, 1), p[5])
          [] tag = ElementType.Undefined -> Ok(BUndefined)
          [] tag = ElementType.ObjectId -> Ok(BObjectId(p))
          [] tag = ElementType.Boolean ->
               (IF p[1] \in {0, 1} THEN Ok(BBoolean(p[1] = 1))
                ELSE Err(Malformed("boolean must be stored as 0 or 1")))
          [] tag = ElementType.DateTime -> Ok(BDateTime(p))
          [] tag = ElementType.Null -> Ok(BNull)
          [] tag = ElementType.RegularExpression ->
               (IF ~IsUtf8(p) THEN Err(Malformed("invalid UTF-8"))
                ELSE Ok(BRegularExpression(SubSeq(p, 1, CStrEnd(p, 1) - 1),
                                           SubSeq(p, CStrEnd(p, 1) + 1, Len(p) - 1))))
          [] tag = ElementType.DbPointer -> DbPointer(ReadString(SubSeq(p, 1, Len(p) - 12)))
          [] tag = ElementType.JavaScriptCodeWithScope ->
               (IF Len(p) < 4 + 5 + MIN_BSON_DOCUMENT_SIZE \/ I32At(p, 5) < 1
                   \/ 8 + I32At(p, 5) + MIN_BSON_DOCUMENT_SIZE > Len(p)
                THEN Err(Malformed("code with scope length too small"))
                ELSE CodeWithScope(ReadString(SubSeq(p, 5, 8 + I32At(p, 5))),
                                   RawDocument_from_bytes(SubSeq(p, 9 + I32At(p, 5), Len(p)))))
          [] tag = ElementType.Int32 -> Ok(BInt32(I32FromLeBytes(p)))
          [] tag = ElementType.Timestamp ->
               Ok(BTimestamp(SubSeq(p, 5, 8), SubSeq(p, 1, 4)))
          [] tag = ElementType.Int64 -> Ok(BInt64(p))
          [] tag = ElementType.Decimal128 -> Ok(BDecimal128(p))
          [] tag = ElementType.MaxKey -> Ok(BMaxKey)
          [] tag = ElementType.MinKey -> Ok(BMinKey)

----------------------------------------------------------------------------
(* Decoding a whole document, and the paths of the round trip *)

\* the (key, value) pairs of a document, or its first error
RawEntries(bytes) ==
    LET FirstErr(rs) == rs[CHOOSE i \in 1..Len(rs) : ~rs[i].ok /\ \A j \in 1..(i - 1) : rs[j].ok]
        ValuesOf(items, vals) ==
            IF \E i \in 1..Len(vals) : ~vals[i].ok THEN FirstErr(vals)
            ELSE Ok([i \in 1..Len(items) |-> Entry(items[i].val.key, vals[i].val)])
        ItemsOf(items) ==
            IF \E i \in 1..Len(items) : ~items[i].ok THEN FirstErr(items)
            ELSE ValuesOf(items, [i \in 1..Len(items) |->
                                   ElementValue(items[i].val.tag, items[i].val.payload)])
    IN  ItemsOf(RawIter(bytes))

\* the key of the i-th element of an array (i from 0, fewer than ten elements)
IndexKey(i) == <<48 + i>>

RECURSIVE BsonTryFromRawBson(_)
RECURSIVE BsonTryFrom(_)
RECURSIVE DocumentTryFrom(_)

\* TryFrom<&RawDocument> for Document: every value converted in order
DocumentTryFrom(bytes) ==
    LET FirstErr(rs) == rs[CHOOSE i \in 1..Len(rs) : ~rs[i].ok /\ \A j \in 1..(i - 1) : rs[j].ok]
        Converted(entries, vals) ==
            IF \E i \in 1..Len(vals) : ~vals[i].ok THEN FirstErr(vals)
            ELSE Ok([i \in 1..Len(entries) |-> Entry(entries[i].k, vals[i].val)])
        Entries(r) ==
            IF ~r.ok THEN r
            ELSE Converted(r.val, [i \in 1..Len(r.val) |-> BsonTryFrom(r.val[i].v)])
    IN  Entries(RawEntries(bytes))

\* TryFrom<RawBson> for Bson: nested documents and arrays converted in turn
BsonTryFromRawBson(raw) ==
    LET Doc(r) == IF r.ok THEN Ok(BDocument(r.val)) ELSE r
        Arr(r) == IF r.ok THEN Ok(BArray([i \in 1..Len(r.val) |-> r.val[i].v])) ELSE r
        Scope(r) == IF r.ok THEN Ok(BJavaScriptCodeWithScope(raw.code, r.val)) ELSE r
    IN  CASE raw.t = "Document" -> Doc(DocumentTryFrom(raw.v))
          [] raw.t = "Array" -> Arr(DocumentTryFrom(raw.v))
          [] raw.t = "JavaScriptCodeWithScope" -> Scope(DocumentTryFrom(raw.scope))
          [] OTHER -> Ok(raw)

\* TryFrom<RawBsonRef> for Bson
BsonTryFrom(rawbson) == BsonTryFromRawBson(RawBsonFrom(rawbson))

RECURSIVE RawBsonFromBson(_)
RECURSIVE DocumentToBytes(_)

\* Document::to_writer: the entries appended in order
DocumentToBytes(entries) ==
    RawDocumentBufFrom([i \in 1..Len(entries) |->
                          Entry(entries[i].k, RawBsonFromBson(entries[i].v))])

\* the raw form of a Bson: nested documents and arrays as their bytes
RawBsonFromBson(b) ==
    CASE b.t = "Document" -> [t |-> "Document", v |-> DocumentToBytes(b.v)]
      [] b.t = "Array" ->
           [t |-> "Array",
            v |-> DocumentToBytes([i \in 1..Len(b.v) |-> Entry(IndexKey(i - 1), b.v[i])])]
      [] b.t = "JavaScriptCodeWithScope" ->
           BJavaScriptCodeWithScope(b.code, DocumentToBytes(b.scope))
      [] OTHER -> b

\* RawDocument::from_bytes, then every element appended to a new buffer
ReencodeRaw(bytes) ==
    LET Entries(r) == IF r.ok THEN Ok(RawDocumentBufFrom(r.val)) ELSE r
        Doc(d) == IF d.ok THEN Entries(RawEntries(d.val)) ELSE d
    IN  Doc(RawDocument_from_bytes(bytes))

\* as ReencodeRaw, every value through the owned RawBson
ReencodeOwned(bytes) ==
    LET Entries(r) ==
            IF ~r.ok THEN r
            ELSE Ok(RawDocumentBufFrom([i \in 1..Len(r.val) |->
                                          Entry(r.val[i].k, RawBsonFrom(r.val[i].v))]))
        Doc(d) == IF d.ok THEN Entries(RawEntries(d.val)) ELSE d
    IN  Doc(RawDocument_from_bytes(bytes))

\* RawDocument::from_bytes, the conversion to Document, Document::to_writer
ReencodeDocument(bytes) ==
    LET Tree(r) == IF r.ok THEN Ok(DocumentToBytes(r.val)) ELSE r
        Doc(d) == IF d.ok THEN Tree(DocumentTryFrom(d.val)) ELSE d
    IN  Doc(RawDocument_from_bytes(bytes))

\* canonical payloads, one or more of every element type, written out byte by byte
Payload ==
    [ Double |-> <<0, 0, 0, 0, 0, 0, 240, 63>>,
      String |-> <<4, 0, 0, 0, 102, 111, 111, 0>>,
      EmptyString |-> <<1, 0, 0, 0, 0>>,
      EmptyDocument |-> <<5, 0, 0, 0, 0>>,
      Document |-> <<12, 0, 0, 0, 16, 97, 0, 1, 0, 0, 0, 0>>,
      Array |-> <<12, 0, 0, 0, 10, 48, 0, 8, 49, 0, 1, 0>>,
      Binary |-> <<3, 0, 0, 0, 0, 102, 111, 111>>,
      EmptyBinary |-> <<0, 0, 0, 0, 128>>,
      BinaryOld |-> <<7, 0, 0, 0, 2, 3, 0, 0, 0, 102, 111, 111>>,
      ObjectId |-> <<171, 205, 239, 1, 35, 69, 103, 137, 171, 205, 239, 1>>,
      True |-> <<1>>,
      False |-> <<0>>,
      DateTime |-> <<255, 255, 255, 255, 255, 255, 255, 255>>,
      RegularExpression |-> <<102, 111, 111, 0, 105, 120, 0>>,
      DbPointer |-> <<2, 0, 0, 0, 98, 0, 171, 205, 239, 1, 35, 69, 103, 137, 171, 205, 239, 1>>,
      JavaScriptCode |-> <<2, 0, 0, 0, 97, 0>>,
      Symbol |-> <<4, 0, 0, 0, 98, 97, 114, 0>>,
      JavaScriptCodeWithScope |->
          <<22, 0, 0, 0, 2, 0, 0, 0, 97, 0, 12, 0, 0, 0, 16, 98, 0, 2, 0, 0, 0, 0>>,
      Int32 |-> <<255, 255, 255, 127>>,
      Timestamp |-> <<2, 0, 0, 0, 1, 0, 0, 0>>,
      Int64 |-> <<0, 0, 0, 0, 1, 0, 0, 0>>,
      Decimal128 |-> <<1, 0, 0, 0, 0, 0, 0, 0, 0, 0, 0, 0, 0, 0, 64, 48>> ]

El(tag, payload) == [tag |-> tag, payload |-> payload]

CanonicalElements ==
    { El(ElementType.Double, Payload.Double), El(ElementType.String, Payload.String),
      El(ElementType.String, Payload.EmptyString),
      El(ElementType.EmbeddedDocument, Payload.EmptyDocument),
      El(ElementType.EmbeddedDocument, Payload.Document),
      El(ElementType.Array, Payload.Array), El(ElementType.Binary, Payload.Binary),
      El(ElementType.Binary, Payload.EmptyBinary), El(ElementType.Binary, Payload.BinaryOld),
      El(ElementType.Undefined, <<>>), El(ElementType.ObjectId, Payload.ObjectId),
      El(ElementType.Boolean, Payload.True), El(ElementType.Boolean, Payload.False),
      El(ElementType.DateTime, Payload.DateTime), El(ElementType.Null, <<>>),
      El(ElementType.RegularExpression, Payload.RegularExpression),
      El(ElementType.DbPointer, Payload.DbPointer),
      El(ElementType.JavaScriptCode, Payload.JavaScriptCode),
      El(ElementType.Symbol, Payload.Symbol),
      El(ElementType.JavaScriptCodeWithScope, Payload.JavaScriptCodeWithScope),
      El(ElementType.Int32, Payload.Int32), El(ElementType.Timestamp, Payload.Timestamp),
      El(ElementType.Int64, Payload.Int64), El(ElementType.Decimal128, Payload.Decimal128),
      El(ElementType.MaxKey, <<>>), El(ElementType.MinKey, <<>>) }

MaxElements == 2

\* the keys of a test document, in order of position
DocKeys == << Str.a, Str.b, Str.foo >>

ElementSeqs(elements, n) == UNION { [1..k -> elements] : k \in 0..n }

CanonicalDocuments ==
    { WireDocument([i \in 1..Len(es) |-> WireElement(es[i].tag, DocKeys[i], es[i].payload)])
        : es \in ElementSeqs(CanonicalElements, MaxElements) }

InitRoundTrip == input \in CanonicalDocuments /\ op = "init" /\ out = NoOut

RawRoundTrip ==
    /\ op = "init"
    /\ op' = "RawDocument::from_bytes"
    /\ out' = ReencodeRaw(input)
    /\ UNCHANGED input

OwnedRoundTrip ==
    /\ op = "init"
    /\ op' = "RawBson::from"
    /\ out' = ReencodeOwned(input)
    /\ UNCHANGED input

DocumentRoundTrip ==
    /\ op = "init"
    /\ op' = "Document::try_from"
    /\ out' = ReencodeDocument(input)
    /\ UNCHANGED input

NextRoundTrip == RawRoundTrip \/ OwnedRoundTrip \/ DocumentRoundTrip

SpecRoundTrip == InitRoundTrip /\ [][NextRoundTrip]_vars

----------------------------------------------------------------------------
(* RawArray: get and the typed getters *)

\* Error::value_access_not_present
value_access_not_present == [kind |-> "ValueAccess", cause |-> "NotPresent", index |-> None]

\* Error::value_access_invalid_bson
value_access_invalid_bson(message) ==
    [kind |-> "ValueAccess", cause |-> "InvalidBson", message |-> message, index |-> None]

\* Error::value_access_unexpected_type
value_access_unexpected_type(actual, expected) ==
    [kind |-> "ValueAccess", cause |-> "UnexpectedType", actual |-> actual,
     expected |-> expected, index |-> None]

\* Error::with_index
with_index(e, index) == [e EXCEPT !.index = Some(index)]

\* RawArrayIter::next, all the items: the value of every element, a
\* malformed element as the last item
RawArrayIter(bytes) ==
    LET Next(items) ==
            [i \in 1..Len(items) |->
                IF items[i].ok THEN ElementValue(items[i].val.tag, items[i].val.payload)
                ELSE items[i]]
    IN  Next(RawIter(bytes))

\* a plausible slip: the element looked up by the key that spells the index
RawArray_get_by_key(bytes, index) ==
    LET Value(item) ==
            IF item.ok THEN
                (LET V(r) == IF r.ok THEN Ok(Some(r.val)) ELSE r
                 IN  V(ElementValue(item.val.tag, item.val.payload)))
            ELSE item
        Find(items) ==
            IF \E i \in 1..Len(items) : ~items[i].ok \/ items[i].val.key = <<48 + index>>
            THEN Value(items[CHOOSE i \in 1..Len(items) :
                               /\ ~items[i].ok \/ items[i].val.key = <<48 + index>>
                               /\ \A j \in 1..(i - 1) :
                                      items[j].ok /\ items[j].val.key # <<48 + index>>])
            ELSE Ok(None)
    IN  Find(RawIter(bytes))

\* RawArray::get: the index-th item of the iterator, transposed
RawArray_get(bytes, index) ==
    LET Nth(items) ==
            IF index >= Len(items) THEN Ok(None)
            ELSE IF items[index + 1].ok THEN Ok(Some(items[index + 1].val))
            ELSE items[index + 1]
    IN  Nth(RawArrayIter(bytes))

\* a plausible slip: a document taken where an array is asked for, and an
\* array where a document is
as_variant_containers_alike(variant, bson) ==
    IF bson.t = variant \/ {bson.t, variant} = {"Array", "Document"}
    THEN Some(bson) ELSE None

\* the as_ accessors, each by the variant it accepts
as_variant(variant, bson) == IF bson.t = variant THEN Some(bson) ELSE None

\* RawArray::get_with
get_with(bytes, index, expected_type, variant) ==
    LET Match(bson, t) ==
            IF IsSome(t) THEN Ok(Unwrap(t))
            ELSE Err(with_index(value_access_unexpected_type(element_type(bson),
                                                             expected_type), index))
        Found(r) ==
            IF ~r.ok THEN Err(value_access_invalid_bson(r.err))
            ELSE IF r.val = None THEN Err(with_index(value_access_not_present, index))
            ELSE Match(Unwrap(r.val), as_variant(variant, Unwrap(r.val)))
    IN  Found(RawArray_get(bytes, index))

\* get_f64 .. get_i64: the expected element type and the accessor of each
TypedGetters ==
    { [name |-> "get_f64", expected |-> "Double", variant |-> "Double"],
      [name |-> "get_str", expected |-> "String", variant |-> "String"],
      [name |-> "get_document", expected |-> "EmbeddedDocument", variant |-> "Document"],
      [name |-> "get_array", expected |-> "Array", variant |-> "Array"],
      [name |-> "get_binary", expected |-> "Binary", variant |-> "Binary"],
      [name |-> "get_object_id", expected |-> "ObjectId", variant |-> "ObjectId"],
      [name |-> "get_bool", expected |-> "Boolean", variant |-> "Boolean"],
      [name |-> "get_datetime", expected |-> "DateTime", variant |-> "DateTime"],
      [name |-> "get_regex", expected |-> "RegularExpression",
       variant |-> "RegularExpression"],
      [name |-> "get_timestamp", expected |-> "Timestamp", variant |-> "Timestamp"],
      [name |-> "get_i32", expected |-> "Int32", variant |-> "Int32"],
      [name |-> "get_i64", expected |-> "Int64", variant |-> "Int64"] }

\* elements whose bytes are malformed: a boolean that is neither 0 nor 1, a
\* string without its nul, a tag that is no element type, a string longer
\* than the buffer
MalformedElements ==
    { El(ElementType.Boolean, <<2>>),
      El(ElementType.String, <<4, 0, 0, 0, 102, 111, 111, 1>>),
      El(32, <<>>),
      El(ElementType.String, <<9, 0, 0, 0, 102>>) }

ArrayElements ==
    { El(ElementType.Double, Payload.Double), El(ElementType.String, Payload.String),
      El(ElementType.EmbeddedDocument, Payload.Document),
      El(ElementType.Array, Payload.Array), El(ElementType.Binary, Payload.Binary),
      El(ElementType.ObjectId, Payload.ObjectId), El(ElementType.Boolean, Payload.True),
      El(ElementType.DateTime, Payload.DateTime),
      El(ElementType.RegularExpression, Payload.RegularExpression),
      El(ElementType.Timestamp, Payload.Timestamp), El(ElementType.Int32, Payload.Int32),
      El(ElementType.Int64, Payload.Int64), El(ElementType.Null, <<>>) }
    \cup MalformedElements

MaxArrayLen == 2

WireArray(es) ==
    WireDocument([i \in 1..Len(es) |-> WireElement(es[i].tag, IndexKey(i - 1), es[i].payload)])

ArrayInputs ==
    { [elements |-> es, bytes |-> WireArray(es), index |-> i]
        : es \in ElementSeqs(ArrayElements, MaxArrayLen), i \in 0..MaxArrayLen }

InitArray == input \in ArrayInputs /\ op = "init" /\ out = NoOut

Get ==
    /\ op = "init"
    /\ op' = "get"
    /\ out' = RawArray_get(input.bytes, input.index)
    /\ UNCHANGED input

TypedGet(g) ==
    /\ op = "init"
    /\ op' = g.name
    /\ out' = get_with(input.bytes, input.index, ElementType[g.expected], g.variant)
    /\ UNCHANGED input

NextArray == Get \/ \E g \in TypedGetters : TypedGet(g)

SpecArray == InitArray /\ [][NextArray]_vars

TypedGetFailed == op \notin {"init", "get"} /\ ~out.ok

\* C10: a typed getter of RawArray fails with a value-access error of one of
\* three causes (no element at the index, malformed bytes, an element of
\* another type), and each of the three carries the requested index
C10_EveryCauseCarriesIndex ==
    TypedGetFailed =>
        /\ out.err.kind = "ValueAccess"
        /\ out.err.cause \in {"NotPresent", "InvalidBson", "UnexpectedType"}
        /\ out.err.index = Some(input.index)

\* the element asked for is malformed, and the error of the typed getter
\* has no index
C10_MalformedWithoutIndex ==
    /\ TypedGetFailed
    /\ input.index < Len(input.elements)
    /\ input.elements[input.index + 1] \in MalformedElements
    /\ out.err.cause = "InvalidBson"
    /\ out.err.index = None

----------------------------------------------------------------------------
(* RawArray::get across a malformed element *)

GetDone == op = "get"

\* the positions (from 0) of the malformed elements of the input array
MalformedPositions ==
    { j \in 0..(Len(input.elements) - 1) : input.elements[j + 1] \in MalformedElements }

\* C11: get(i) walks the iterator from the start and stops at a malformed
\* element: when some element at a position <= i is malformed, get(i) is an
\* Err, never Ok(None) and never the value of a later element
C11_GetStopsAtMalformed ==
    (GetDone /\ \E j \in MalformedPositions : j <= input.index) => ~out.ok

\* the element at position 0 is a boolean stored as 2, and get(1) has
\* returned the value of the element at position 1
C11_MalformedSkipped ==
    /\ GetDone
    /\ input.index = 1
    /\ Len(input.elements) = 2
    /\ input.elements[1] = El(ElementType.Boolean, <<2>>)
    /\ input.elements[2] = El(ElementType.Int32, Payload.Int32)
    /\ out = Ok(Some(BInt32(I32FromLeBytes(Payload.Int32))))

----------------------------------------------------------------------------
(* RawArray over elements with arbitrary keys *)

\* keys an array element may carry on the wire: the conventional "0" and
\* "1", a name, the empty key
ArrayKeys == { IndexKey(0), IndexKey(1), Str.a, <<>> }

KeyedElements ==
    { El(ElementType.Int32, Payload.Int32), El(ElementType.String, Payload.String),
      El(ElementType.EmbeddedDocument, Payload.Document) }

MaxKeyedLen == 2

\* the arrays of n elements, each with an index to ask for
KeyedArrayInputs(n) ==
    { [elements |-> es, keys |-> ks, index |-> i,
       bytes |-> WireDocument([p \in 1..n |->
                                 WireElement(es[p].tag, ks[p], es[p].payload)])]
        : es \in [1..n -> KeyedElements], ks \in [1..n -> ArrayKeys],
          i \in 0..MaxKeyedLen }

InitArrayKeys ==
    /\ \E n \in 0..MaxKeyedLen : input \in KeyedArrayInputs(n)
    /\ op = "init"
    /\ out = NoOut

\* for item in &array: every item of the iterator, in order
IntoIter ==
    /\ op = "init"
    /\ op' = "into_iter"
    /\ out' = RawArrayIter(input.bytes)
    /\ UNCHANGED input

NextArrayKeys == Get \/ IntoIter

SpecArrayKeys == InitArrayKeys /\ [][NextArrayKeys]_vars

\* the value of the element at position p (from 1) of the input
ValueAt(p) == ElementValue(input.elements[p].tag, input.elements[p].payload).val

\* C12: an array is read by position and its keys are not looked at: get(i)
\* and iteration give the i-th element in wire order whatever the keys are,
\* and get(i) is Ok(None) exactly when i is at least the number of elements
C12_Positional ==
    /\ op = "get" =>
         /\ out.ok
         /\ (out.val = None) <=> (input.index >= Len(input.elements))
         /\ input.index < Len(input.elements) => out.val = Some(ValueAt(input.index + 1))
    /\ op = "into_iter" =>
         /\ Len(out) = Len(input.elements)
         /\ \A p \in 1..Len(out) : out[p] = Ok(ValueAt(p))

\* both elements carry the key "a", and get(1) has returned the second
C12_Witness ==
    /\ op = "get"
    /\ input.index = 1
    /\ input.keys = << Str.a, Str.a >>
    /\ input.elements = << El(ElementType.Int32, Payload.Int32),
                           El(ElementType.String, Payload.String) >>
    /\ out = Ok(Some(BString(Str.foo)))

----------------------------------------------------------------------------
(* Encoding one value, borrowed and owned *)

MaxBytes == 2

\* the bytes a binary, a string or a pattern is filled with
SampleBytes == { 0, 102, 255 }

ByteSeqs(n) == UNION { [1..k -> SampleBytes] : k \in 0..n }

BinarySubtypeBytes ==
    { BinarySubtype.Generic, BinarySubtype.Function, BinarySubtype.BinaryOld,
      BinarySubtype.UuidOld, BinarySubtype.Uuid, BinarySubtype.Md5,
      BinarySubtype.Encrypted, BinarySubtype.Column, BinarySubtype.UserDefined }

BinaryValues == { BBinary(st, b) : st \in BinarySubtypeBytes, b \in ByteSeqs(MaxBytes) }

CodeWithScopeValues ==
    { BJavaScriptCodeWithScope(code, scope)
        : code \in { <<>>, Str.a, Str.foo }, scope \in { Payload.EmptyDocument, Payload.Document } }

\* the option characters i, m, x
OptionChars == { 105, 109, 120 }

MaxOptions == 3

RegexValues ==
    { BRegularExpression(pattern, options)
        : pattern \in { <<>>, Str.foo },
          options \in UNION { [1..k -> OptionChars] : k \in 0..MaxOptions } }

\* one value of every other variant
OtherValues ==
    { BDouble(Payload.Double), BString(Str.foo), [t |-> "Array", v |-> Payload.Array],
      [t |-> "Document", v |-> Payload.Document], BBoolean(TRUE), BBoolean(FALSE), BNull,
      BJavaScriptCode(Str.a), BInt32(-1), BInt32(I32FromLeBytes(Payload.Int32)),
      BInt64(Payload.Int64), BTimestamp(<<1, 0, 0, 0>>, <<2, 0, 0, 0>>),
      BObjectId(Payload.ObjectId), BDateTime(Payload.DateTime), BSymbol(Str.bar),
      BDecimal128(Payload.Decimal128), BUndefined, BMaxKey, BMinKey,
      BDbPointer(Str.b, Payload.ObjectId) }

RawValues == BinaryValues \cup CodeWithScopeValues \cup RegexValues \cup OtherValues

InitValue == input \in RawValues /\ op = "init" /\ out = NoOut

\* value.append_to(&mut dest) on an empty dest
AppendTo ==
    /\ op = "init"
    /\ op' = "append_to"
    /\ out' = append_to(input)
    /\ UNCHANGED input

\* RawBson::from(value)
IntoOwned ==
    /\ op = "init"
    /\ op' = "RawBson::from"
    /\ out' = RawBsonFrom(input)
    /\ UNCHANGED input

\* RawBson::from(value).as_raw_bson_ref().append_to(&mut dest)
OwnedAppendTo ==
    /\ op = "init"
    /\ op' = "owned append_to"
    /\ out' = append_to(RawBsonFrom(input))
    /\ UNCHANGED input

NextValue == AppendTo \/ IntoOwned \/ OwnedAppendTo

SpecValue == InitValue /\ [][NextValue]_vars

\* C13: a binary of subtype BinaryOld is written as the int32 len(b) + 4, the
\* subtype byte, an inner int32 len(b), then b; a binary of any other subtype
\* as the int32 len(b), the subtype byte, then b; and decoding what was
\* written gives the same subtype and bytes
C13_BinaryFidelity ==
    (op = "append_to" /\ input.t = "Binary") =>
        /\ out = IF input.subtype = BinarySubtype.BinaryOld
                 THEN I32ToLeBytes(Len(input.bytes) + 4) \o <<BinarySubtype.BinaryOld>>
                      \o I32ToLeBytes(Len(input.bytes)) \o input.bytes
                 ELSE I32ToLeBytes(Len(input.bytes)) \o <<input.subtype>> \o input.bytes
        /\ ElementValue(ElementType.Binary, out) = Ok(input)

\* a legacy binary of two bytes has been written as eleven
C13_Witness ==
    /\ op = "append_to"
    /\ input = BBinary(BinarySubtype.BinaryOld, <<102, 255>>)
    /\ out = <<6, 0, 0, 0, 2, 2, 0, 0, 0, 102, 255>>

\* C14: the length written for a code with scope is
\* 4 + 4 + len(code) + 1 + len(scope bytes), and it is the number of bytes
\* append_to writes for the value
C14_CodeWithScopeLength ==
    (op = "append_to" /\ input.t = "JavaScriptCodeWithScope") =>
        /\ I32FromLeBytes(SubSeq(out, 1, 4)) = 4 + 4 + Len(input.code) + 1 + Len(input.scope)
        /\ I32FromLeBytes(SubSeq(out, 1, 4)) = Len(out)
        /\ out = SubSeq(out, 1, 4) \o I32ToLeBytes(Len(input.code) + 1) \o input.code
                 \o <<0>> \o input.scope

\* the code "foo" with the scope {"a": 1} has been written, 24 bytes
C14_Witness ==
    /\ op = "append_to"
    /\ input = BJavaScriptCodeWithScope(Str.foo, Payload.Document)
    /\ Len(out) = 24
    /\ SubSeq(out, 1, 4) = <<24, 0, 0, 0>>

\* how many times c occurs in s
Count(s, c) == Cardinality({ i \in 1..Len(s) : s[i] = c })

\* C15: the owned form of a borrowed regular expression has the options in
\* non-decreasing order, the same characters as many times each as the
\* borrowed options, and the same pattern
C15_OptionsSorted ==
    (op = "RawBson::from" /\ input.t = "RegularExpression") =>
        /\ out.t = "RegularExpression"
        /\ out.pattern = input.pattern
        /\ Len(out.options) = Len(input.options)
        /\ \A i \in 1..(Len(out.options) - 1) : out.options[i] <= out.options[i + 1]
        /\ \A c \in OptionChars : Count(out.options, c) = Count(input.options, c)

\* the options "xmi" have become "imx"
C15_Witness ==
    /\ op = "RawBson::from"
    /\ input = BRegularExpression(Str.foo, <<120, 109, 105>>)
    /\ out = BRegularExpression(Str.foo, <<105, 109, 120>>)

\* C16: for every borrowed value, the owned value made from it encodes to
\* the bytes that append_to gives for the borrowed value itself
C16_OwnedEncodesTheSame == op = "owned append_to" => out = append_to(input)

\* the regular expression /foo/xi: the owned value has been encoded with the
\* options "ix"
C16_UnsortedOptionsReordered ==
    /\ op = "owned append_to"
    /\ input = BRegularExpression(Str.foo, <<120, 105>>)
    /\ append_to(input) = <<102, 111, 111, 0, 120, 105, 0>>
    /\ out = <<102, 111, 111, 0, 105, 120, 0>>

----------------------------------------------------------------------------
(* Reading a document from a stream, and the decode entry points *)

\* a reader is the sequence of bytes that are left in it
IoError(kind) == [kind |-> "Io", io |-> kind]

Custom(message) == [kind |-> "Custom", message |-> message]

\* reader_to_vec: read_exact of the four bytes of the length, then
\* take(length - 4).read_to_end, which stops at the end of the reader
reader_to_vec(reader) ==
    IF Len(reader) < 4 THEN Err(IoError("UnexpectedEof"))
    ELSE IF I32FromLeBytes(SubSeq(reader, 1, 4)) < MIN_BSON_DOCUMENT_SIZE
    THEN Err(Custom("document size too small"))
    ELSE Ok(I32ToLeBytes(I32FromLeBytes(SubSeq(reader, 1, 4)))
            \o SubSeq(reader, 5, IF Len(reader) < I32FromLeBytes(SubSeq(reader, 1, 4))
                                 THEN Len(reader)
                                 ELSE I32FromLeBytes(SubSeq(reader, 1, 4))))

\* raw::Deserializer::new: the bytes must be one whole document
RawDeserializerNew(bytes) == RawDocument_from_bytes(bytes)

\* from_raw with T = Document: the document the deserializer walks
from_raw(deserializer) == DocumentTryFrom(deserializer)

\* a plausible slip: the result of Deserializer::new not looked at
from_slice_unchecked(bytes) == from_raw(bytes)

\* from_slice
from_slice(bytes) ==
    LET New(d) == IF d.ok THEN from_raw(d.val) ELSE d
    IN  New(RawDeserializerNew(bytes))

\* from_reader
from_reader(reader) ==
    LET Vec(bytes) == IF bytes.ok THEN from_slice(bytes.val) ELSE bytes
    IN  Vec(reader_to_vec(reader))

\* Document::from_reader: the bytes read, checked as a raw document, converted
Document_from_reader(reader) ==
    LET Raw(d) == IF d.ok THEN DocumentTryFrom(d.val) ELSE d
        Vec(bytes) == IF bytes.ok THEN Raw(RawDocument_from_bytes(bytes.val)) ELSE bytes
    IN  Vec(reader_to_vec(reader))

\* RawDocument::from_bytes, then Document::try_from
Document_from_raw_bytes(bytes) ==
    LET Raw(d) == IF d.ok THEN DocumentTryFrom(d.val) ELSE d
    IN  Raw(RawDocument_from_bytes(bytes))

\* valid documents: the empty one, one of every canonical element, one of
\* two elements
ReaderDocuments ==
    { WireDocument(<<>>),
      WireDocument(<< WireElement(ElementType.Int32, Str.a, Payload.Int32),
                      WireElement(ElementType.Null, Str.b, <<>>) >>) }
    \cup { WireDocument(<< WireElement(e.tag, Str.a, e.payload) >>) : e \in CanonicalElements }

\* the valid documents without their last byte
TruncatedDocuments == { SubSeq(d, 1, Len(d) - 1) : d \in ReaderDocuments }

\* what a reader may hold: any prefix of a valid document, a valid document
\* followed by a further byte, a length that is too small or negative
Readers ==
    UNION { { SubSeq(d, 1, n) : n \in 0..Len(d) } : d \in ReaderDocuments }
    \cup { d \o <<b>> : d \in ReaderDocuments, b \in {0, 255} }
    \cup { <<4, 0, 0, 0>>, <<0, 0, 0, 0, 0>>, <<255, 255, 255, 255, 0>> }

InitReader == input \in Readers /\ op = "init" /\ out = NoOut

ReaderToVec ==
    /\ op = "init"
    /\ op' = "reader_to_vec"
    /\ out' = reader_to_vec(input)
    /\ UNCHANGED input

FromReader ==
    /\ op = "init"
    /\ op' = "from_reader"
    /\ out' = from_reader(input)
    /\ UNCHANGED input

FromSlice ==
    /\ op = "init"
    /\ op' = "from_slice"
    /\ out' = from_slice(input)
    /\ UNCHANGED input

DocumentFromReader ==
    /\ op = "init"
    /\ op' = "Document::from_reader"
    /\ out' = Document_from_reader(input)
    /\ UNCHANGED input

DocumentFromRawBytes ==
    /\ op = "init"
    /\ op' = "RawDocument::from_bytes, Document::try_from"
    /\ out' = Document_from_raw_bytes(input)
    /\ UNCHANGED input

NextReader ==
    ReaderToVec \/ FromReader \/ FromSlice \/ DocumentFromReader \/ DocumentFromRawBytes

SpecReader == InitReader /\ [][NextReader]_vars

\* C17: when reader_to_vec returns Ok(buf) for a reader whose length prefix
\* declares L, buf has exactly L bytes; a reader that ends before L bytes
\* makes it fail
C17_NeverPartial ==
    (op = "reader_to_vec" /\ out.ok) => Len(out.val) = I32FromLeBytes(SubSeq(input, 1, 4))

\* the reader holds {"a": 2147483647} without its last byte, and
\* reader_to_vec has returned those eleven bytes under a prefix of twelve
C17_ShortBuffer ==
    /\ op = "reader_to_vec"
    /\ input = <<12, 0, 0, 0, 16, 97, 0, 255, 255, 255, 127>>
    /\ out = Ok(input)

DecodeEntryPoints ==
    { "from_reader", "from_slice", "Document::from_reader",
      "RawDocument::from_bytes, Document::try_from" }

\* C18: a valid document without its last byte is rejected with an error by
\* every decode entry point; none returns a document
C18_TruncatedRejected ==
    (op \in DecodeEntryPoints /\ input \in TruncatedDocuments) => ~out.ok

\* the empty document without its terminator has gone through from_slice
\* and been rejected
C18_Witness ==
    /\ op = "from_slice"
    /\ input = <<5, 0, 0, 0>>
    /\ ~out.ok
    /\ out.err.kind = "MalformedValue"

----------------------------------------------------------------------------
(* The tree-driven path: a Bson deserialized into a Bson *)

\* one or more values of every variant that holds no other value
TreeLeaves ==
    { BDouble(Payload.Double), BString(Str.foo), BString(<<>>), BBoolean(TRUE),
      BBoolean(FALSE), BNull, BInt32(1), BInt32(-1), BInt64(Payload.Int64),
      BBinary(BinarySubtype.Generic, Str.foo), BBinary(BinarySubtype.Generic, <<>>),
      BBinary(BinarySubtype.BinaryOld, Str.foo), BBinary(BinarySubtype.Uuid, UuidBytes),
      BBinary(BinarySubtype.UserDefined, <<255>>),
      BObjectId(OidBytes), BDateTime(Payload.DateTime), BDateTime(<<232, 3, 0, 0, 0, 0, 0, 0>>),
      BSymbol(Str.bar), BJavaScriptCode(Str.a),
      BJavaScriptCodeWithScope(Str.a, << Entry(Str.b, BInt32(2)) >>),
      BJavaScriptCodeWithScope(Str.a, <<>>),
      BRegularExpression(Str.foo, <<105, 120>>), BRegularExpression(<<>>, <<>>),
      BTimestamp(<<1, 0, 0, 0>>, <<2, 0, 0, 0>>), BDecimal128(Payload.Decimal128),
      BDbPointer(Str.b, OidBytes), BUndefined, BMaxKey, BMinKey }

\* the leaves put into containers of more than one element
NestLeaves ==
    { BInt32(1), BString(Str.foo), BNull, BObjectId(OidBytes),
      BBinary(BinarySubtype.BinaryOld, Str.foo), BDateTime(Payload.DateTime),
      BJavaScriptCodeWithScope(Str.a, << Entry(Str.b, BInt32(2)) >>),
      BArray(<< BInt32(1) >>), BDocument(<< Entry(Str.a, BMinKey) >>), BDocument(<<>>) }

MaxFields == 2

\* documents whose keys are a, b, foo in this order, and arrays
PlainContainers ==
    { BDocument(<< Entry(Str.a, v) >>) : v \in TreeLeaves }
    \cup { BArray(<< v >>) : v \in TreeLeaves }
    \cup UNION { { BDocument([i \in 1..n |-> Entry(DocKeys[i], vs[i])]) : vs \in [1..n -> NestLeaves] }
                 : n \in 0..MaxFields }
    \cup UNION { { BArray(vs) : vs \in [1..n -> NestLeaves] } : n \in 0..MaxFields }

\* documents one of whose keys is spelled like a special key
DollarDocuments ==
    { BDocument(<< Entry(Str.oid, BString(OidHex)) >>),
      BDocument(<< Entry(Str.code, BString(Str.foo)) >>),
      BDocument(<< Entry(Str.numberInt, BString(Str.foo)) >>),
      BDocument(<< Entry(Str.a, BInt32(1)), Entry(Str.symbol, BString(Str.bar)) >>),
      BDocument(<< Entry(Str.a, BDocument(<< Entry(Str.maxKey, BInt32(1)) >>)) >>),
      BArray(<< BDocument(<< Entry(Str.undefined, BBoolean(TRUE)) >>) >>),
      BJavaScriptCodeWithScope(Str.a, << Entry(Str.minKey, BInt32(1)) >>) }

TreeInputs == TreeLeaves \cup PlainContainers \cup DollarDocuments

\* FieldVisitor::visit_map with T = Bson: the entries are read in order,
\* each value as a Bson, until the key is the one looked for
RECURSIVE FieldVisitor_visit_map(_, _)
FieldVisitor_visit_map(map, field) ==
    LET Entry2(k, value, v) ==
            IF ~v.ok THEN v
            ELSE IF k = field THEN v
            ELSE FieldVisitor_visit_map(value.m, field)
        NextKey(key) ==
            IF ~key.key.ok THEN key.key
            ELSE IF key.key.val = None THEN Err(Custom("missing field"))
            ELSE Entry2(Unwrap(key.key.val), next_value_seed(key.m),
                        BsonVisitor(next_value_seed(key.m).d))
    IN  NextKey(next_key_seed(map))

\* the Visitor methods of FieldVisitor: visit_map, the others are the default
FieldVisitor(d, field) ==
    IF ~d.visited THEN Err(d.err)
    ELSE IF d.call = "visit_map" THEN FieldVisitor_visit_map(d.param, field)
    ELSE Err(InvalidType(d, "RawBson at field"))

InitTree == input \in TreeInputs /\ op = "init" /\ out = NoOut

\* Bson::deserialize(Deserializer::new(v))
DeserializeBson ==
    /\ op = "init"
    /\ op' = "Bson::deserialize"
    /\ out' = BsonVisitor(deserialize_any(DeserializerNew(input)))
    /\ UNCHANGED input

\* Deserializer::new(v).deserialize_any(FieldVisitor(field))
DeserializeField(field) ==
    /\ op = "init"
    /\ op' = "FieldVisitor"
    /\ out' = [field |-> field,
               res |-> FieldVisitor(deserialize_any(DeserializerNew(input)), field)]
    /\ UNCHANGED input

NextTree == DeserializeBson \/ \E field \in {Str.a, Str.b} : DeserializeField(field)

SpecTree == InitTree /\ [][NextTree]_vars


\* some document inside v, v itself or the scope of a code included, has a
\* key that is one of the special keys
RECURSIVE HasSpecialKey(_)
HasSpecialKey(v) ==
    CASE v.t = "Document" ->
           \E i \in 1..Len(v.v) : v.v[i].k \in SpecialKeys \/ HasSpecialKey(v.v[i].v)
      [] v.t = "Array" -> \E i \in 1..Len(v.v) : HasSpecialKey(v.v[i])
      [] v.t = "JavaScriptCodeWithScope" ->
           \E i \in 1..Len(v.scope) : v.scope[i].k \in SpecialKeys \/ HasSpecialKey(v.scope[i].v)
      [] OTHER -> FALSE

\* the result r is Ok of the Bson v
IsOkOf(r, v) == r.ok /\ r.val.t = v.t /\ r.val = v

\* the value of the first entry of the document doc whose key is field
FirstValue(doc, field) ==
    doc[CHOOSE i \in 1..Len(doc) : doc[i].k = field /\ \A j \in 1..(i - 1) : doc[j].k # field].v

FieldFound == op = "FieldVisitor" /\ input.t = "Document" /\ out.field \in Keys(input.v)

----------------------------------------------------------------------------
(* ObjectId from bytes *)

InvalidLength(len, want) == [kind |-> "invalid_length", len |-> len, want |-> want]

\* a plausible slip: the bytes taken as an ObjectId whatever their number
ObjectIdVisitor_any_length(d) ==
    LET Map(bson) ==
            IF ~bson.ok THEN bson
            ELSE IF bson.val.t = "ObjectId" THEN Ok(bson.val.v)
            ELSE Err(Custom("expected map containing extended-JSON formatted ObjectId"))
        Str1(oid, s) ==
            IF oid.ok THEN oid ELSE Err(InvalidStr(s, "24-character, big-endian hex string"))
    IN  IF ~d.visited THEN Err(d.err)
        ELSE CASE d.call = "visit_string" -> Str1(ObjectIdParseStr(d.param), d.param)
               [] d.call \in {"visit_bytes", "visit_byte_buf"} -> Ok(d.param)
               [] d.call = "visit_map" -> Map(visit_map(d.param).res)
               [] OTHER -> Err(InvalidType(d, "expecting an ObjectId"))

\* the Visitor methods of ObjectIdVisitor, by the dispatch d it receives; an
\* ObjectId is its 12 bytes
ObjectIdVisitor(d) ==
    LET Map(bson) ==
            IF ~bson.ok THEN bson
            ELSE IF bson.val.t = "ObjectId" THEN Ok(bson.val.v)
            ELSE Err(Custom("expected map containing extended-JSON formatted ObjectId"))
        Str1(oid, s) ==
            IF oid.ok THEN oid ELSE Err(InvalidStr(s, "24-character, big-endian hex string"))
    IN  IF ~d.visited THEN Err(d.err)
        ELSE CASE d.call = "visit_string" -> Str1(ObjectIdParseStr(d.param), d.param)
               [] d.call \in {"visit_bytes", "visit_byte_buf"} ->
                    (IF Len(d.param) = 12 THEN Ok(d.param)
                     ELSE Err(InvalidLength(Len(d.param), "12 bytes")))
               [] d.call = "visit_map" -> Map(visit_map(d.param).res)
               [] OTHER -> Err(InvalidType(d, "expecting an ObjectId"))

\* ObjectId::deserialize
ObjectId_deserialize(deserializer) ==
    IF ~is_human_readable(deserializer)
    THEN ObjectIdVisitor(deserialize_bytes(deserializer))
    ELSE ObjectIdVisitor(deserialize_any(deserializer))

MaxBytesLen == 13

\* byte strings of every length up to MaxBytesLen, of two fillings
OidLikeBytes ==
    { [i \in 1..n |-> b] : n \in 0..MaxBytesLen, b \in {0, 171} }
    \cup { OidBytes }

ObjectIds == { b \in OidLikeBytes : Len(b) = 12 }

OidValues ==
    { BObjectId(b) : b \in ObjectIds }
    \cup { BBinary(BinarySubtype.Generic, b) : b \in OidLikeBytes }
    \cup { BDocument(<< Entry(Str.oid, BBinary(BinarySubtype.Generic, b)) >>) : b \in OidLikeBytes }
    \cup { BDocument(<< Entry(Str.oid, BString(OidHex)) >>), BString(OidHex),
           BString(Str.foo), BInt32(1), BNull, BBinary(BinarySubtype.Uuid, UuidBytes) }

OidInputs ==
    { [value |-> v, options |-> [human_readable |-> hr]]
        : v \in OidValues, hr \in {None, Some(TRUE), Some(FALSE)} }

InitOid == input \in OidInputs /\ op = "init" /\ out = NoOut

\* ObjectIdVisitor.visit_bytes(&bytes)
VisitBytes ==
    /\ op = "init"
    /\ input.value.t = "Binary"
    /\ op' = "visit_bytes"
    /\ out' = ObjectIdVisitor(Visit("visit_bytes", input.value.bytes))
    /\ UNCHANGED input

\* BsonVisitor.visit_map over the document
VisitOidMap ==
    /\ op = "init"
    /\ input.value.t = "Document"
    /\ op' = "visit_map"
    /\ out' = visit_map(MapDeserializerNew(input.value.v, input.options)).res
    /\ UNCHANGED input

\* Deserializer::new_with_options(value, options).deserialize_bytes(visitor)
DeserializeBytes ==
    /\ op = "init"
    /\ op' = "deserialize_bytes"
    /\ out' = deserialize_bytes(DeserializerNewWithOptions(input.value, input.options))
    /\ UNCHANGED input

\* ObjectId::deserialize(Deserializer::new_with_options(value, options))
DeserializeObjectId ==
    /\ op = "init"
    /\ op' = "ObjectId::deserialize"
    /\ out' = ObjectId_deserialize(DeserializerNewWithOptions(input.value, input.options))
    /\ UNCHANGED input

NextOid == VisitBytes \/ VisitOidMap \/ DeserializeBytes \/ DeserializeObjectId

SpecOid == InitOid /\ [][NextOid]_vars

OidBytesForm ==
    /\ op = "visit_map"
    /\ Len(input.value.v) = 1
    /\ input.value.v[1].k = Str.oid
    /\ input.value.v[1].v.t = "Binary"

NotHumanReadableOid ==
    input.value.t = "ObjectId" /\ input.options.human_readable = Some(FALSE)

----------------------------------------------------------------------------
(* MapDeserializer and SeqDeserializer driven call by call *)

\* a plausible slip: the counter left as it was when an element is yielded
next_element_seed_len_kept(s) ==
    IF Len(s.iter) = 0 THEN [s |-> s, elem |-> None]
    ELSE [s |-> [s EXCEPT !.iter = Tail(s.iter)],
          elem |-> Some(deserialize_any(DeserializerNewWithOptions(s.iter[1], s.options)))]

\* SeqDeserializer::next_element_seed: the access afterwards and, when the
\* iterator yields a value, the dispatch its deserializer makes for
\* deserialize_any
next_element_seed(s) ==
    IF Len(s.iter) = 0 THEN [s |-> s, elem |-> None]
    ELSE [s |-> [s EXCEPT !.iter = Tail(s.iter), !.len = s.len - 1],
          elem |-> Some(deserialize_any(DeserializerNewWithOptions(s.iter[1], s.options)))]

\* SeqDeserializer::size_hint and MapDeserializer::size_hint
size_hint(self) == Some(self.len)

AccessKeys == { Str.a, Str.b, Str.oid }

AccessValues == { BInt32(1), BString(Str.foo), BNull }

MaxEntries == 2

\* the documents of n entries with distinct keys, and the arrays of n values
AccessInputs(n) ==
    { [kind |-> "map", items |-> d] :
        d \in { e \in [1..n -> { Entry(k, v) : k \in AccessKeys, v \in AccessValues }] :
                  DistinctKeys(e) } }
    \cup { [kind |-> "seq", items |-> a] : a \in [1..n -> AccessValues] }

\* how many calls a visitor makes on one access
MaxCalls == 4

\* one call of the log: the method and what it returned, None for
\* Ok(None) and for the end-of-stream error, Some(key or dispatch) otherwise
Call(method, ret) == [call |-> method, ret |-> ret]

\* the access as constructed: MapDeserializer::new(doc, None), or the
\* SeqDeserializer deserialize_next and tuple_variant build from an array
InitAccess ==
    /\ \E n \in 0..MaxEntries : input \in AccessInputs(n)
    /\ op = "new"
    /\ out = [m |-> IF input.kind = "map"
                    THEN MapDeserializerNew(input.items, DefaultOptions)
                    ELSE SeqDeserializerOf(input.items, DefaultOptions),
              prev |-> None, log |-> <<>>]

\* map.next_key_seed(PhantomData::<String>)
NextKeySeed ==
    /\ input.kind = "map"
    /\ Len(out.log) < MaxCalls
    /\ LET Then(r) ==
               out' = [m |-> r.m, prev |-> Some(out.m),
                       log |-> Append(out.log, Call("next_key_seed", r.key.val))]
       IN  Then(next_key_seed(out.m))
    /\ op' = "next_key_seed"
    /\ UNCHANGED input

\* map.next_value_seed(seed), the seed calling deserialize_any
NextValueSeed ==
    /\ input.kind = "map"
    /\ Len(out.log) < MaxCalls
    /\ LET Then(r) ==
               out' = [m |-> r.m, prev |-> Some(out.m),
                       log |-> Append(out.log,
                                      Call("next_value_seed",
                                           IF r.d = Fail(EndOfStream) THEN None
                                           ELSE Some(r.d)))]
       IN  Then(next_value_seed(out.m))
    /\ op' = "next_value_seed"
    /\ UNCHANGED input

\* seq.next_element_seed(seed), the seed calling deserialize_any
NextElementSeed ==
    /\ input.kind = "seq"
    /\ Len(out.log) < MaxCalls
    /\ LET Then(r) ==
               out' = [m |-> r.s, prev |-> Some(out.m),
                       log |-> Append(out.log, Call("next_element_seed", r.elem))]
       IN  Then(next_element_seed(out.m))
    /\ op' = "next_element_seed"
    /\ UNCHANGED input

NextAccess == NextKeySeed \/ NextValueSeed \/ NextElementSeed

SpecAccess == InitAccess /\ [][NextAccess]_vars

\* the calls before the last one
Before == SubSeq(out.log, 1, Len(out.log) - 1)

\* the last call
LastCall == out.log[Len(out.log)]

\* the positions of the log where method returned an entry
Yields(log, method) ==
    { i \in 1..Len(log) : log[i].call = method /\ log[i].ret # None }

\* a value is pending after log: a key has been yielded and next_value_seed
\* has not been called since the last one
Pending(log) ==
    \E i \in Yields(log, "next_key_seed") :
        \A j \in (i + 1)..Len(log) :
            log[j].call = "next_key_seed" /\ log[j].ret = None

\* next_key_seed has returned None before the last call
KeysExhausted ==
    \E i \in 1..Len(Before) : Before[i].call = "next_key_seed" /\ Before[i].ret = None

\* C21 as stated: next_value_seed returns the end-of-stream error and leaves
\* the cursor unchanged when it is called before any next_key_seed, a second
\* time after a single next_key_seed, or after next_key_seed has returned None
C21_EndOfStreamAfterNone ==
    (/\ op = "next_value_seed"
     /\ \/ ~\E i \in 1..Len(Before) : Before[i].call = "next_key_seed"
        \/ Len(Before) > 0 /\ Before[Len(Before)].call = "next_value_seed"
        \/ KeysExhausted)
    => LastCall.ret = None /\ out.m = Unwrap(out.prev)

\* C21: next_value_seed returns the end-of-stream error exactly when no value
\* is pending, that is when no key has been yielded since construction or
\* since the last next_value_seed, and then it leaves the cursor (remaining
\* entries, pending value and len) unchanged
C21_EndOfStreamWhenNothingPending ==
    op = "next_value_seed" =>
        /\ (LastCall.ret = None) <=> ~Pending(Before)
        /\ LastCall.ret = None => out.m = Unwrap(out.prev)

\* the one key and its value were taken, next_key_seed returned None, and the
\* next_value_seed after it has failed with the end-of-stream error
C21_Witness ==
    /\ op = "next_value_seed"
    /\ Len(input.items) = 1
    /\ Len(out.log) = 4
    /\ out.log[1].call = "next_key_seed"
    /\ out.log[2].call = "next_value_seed" /\ out.log[2].ret # None
    /\ out.log[3].call = "next_key_seed" /\ out.log[3].ret = None
    /\ out.log[4].ret = None
    /\ out.m = Unwrap(out.prev)

\* the value of a key that was skipped is still handed over after
\* next_key_seed has returned None
C21_StaleValueAfterNone ==
    /\ op = "next_value_seed"
    /\ KeysExhausted
    /\ LastCall.ret # None

----------------------------------------------------------------------------
(* "$numberInt" and "$numberLong": decimal text to Int32 and Int64 *)

\* the characters of the generated texts: 0, 1, 9, -, +, a, space
TextChars == { 48, 49, 57, 45, 43, 97, 32 }

MaxText == 3

\* the texts of n characters
Texts(n) == [1..n -> TextChars]

\* texts at the edges of the 32-bit and 64-bit ranges, and non-integers
EdgeTexts ==
    { <<50, 49, 52, 55, 52, 56, 51, 54, 52, 55>>,   \* "2147483647"
      <<50, 49, 52, 55, 52, 56, 51, 54, 52, 56>>,   \* "2147483648"
      <<45, 50, 49, 52, 55, 52, 56, 51, 54, 52, 56>>,   \* "-2147483648"
      <<45, 50, 49, 52, 55, 52, 56, 51, 54, 52, 57>>,   \* "-2147483649"
      <<43, 50, 49, 52, 55, 52, 56, 51, 54, 52, 55>>,   \* "+2147483647"
      <<48, 48, 48, 50, 49, 52, 55, 52, 56, 51, 54, 52, 55>>,   \* "0002147483647"
      <<52, 50, 57, 52, 57, 54, 55, 50, 57, 54>>,   \* "4294967296"
      <<52, 50, 57, 52, 57, 54, 55, 50, 57, 55>>,   \* "4294967297"
      <<45, 52, 50, 57, 52, 57, 54, 55, 50, 57, 53>>,   \* "-4294967295"
      <<57, 50, 50, 51, 51, 55, 50, 48, 51, 54, 56, 53, 52, 55, 55, 53, 56, 48, 55>>,   \* "9223372036854775807"
      <<57, 50, 50, 51, 51, 55, 50, 48, 51, 54, 56, 53, 52, 55, 55, 53, 56, 48, 56>>,   \* "9223372036854775808"
      <<45, 57, 50, 50, 51, 51, 55, 50, 48, 51, 54, 56, 53, 52, 55, 55, 53, 56, 48, 56>>,   \* "-9223372036854775808"
      <<45, 57, 50, 50, 51, 51, 55, 50, 48, 51, 54, 56, 53, 52, 55, 55, 53, 56, 48, 57>>,   \* "-9223372036854775809"
      <<49, 56, 52, 52, 54, 55, 52, 52, 48, 55, 51, 55, 48, 57, 53, 53, 49, 54, 49, 54>>,   \* "18446744073709551616"
      <<49, 56, 52, 52, 54, 55, 52, 52, 48, 55, 51, 55, 48, 57, 53, 53, 49, 54, 49, 55>>,   \* "18446744073709551617"
      <<45, 49, 56, 52, 52, 54, 55, 52, 52, 48, 55, 51, 55, 48, 57, 53, 53, 49, 54, 49, 53>>,   \* "-18446744073709551615"
      <<57, 57, 57, 57, 57, 57, 57, 57, 57, 57, 57, 57, 57, 57, 57, 57, 57, 57, 57, 57>>,   \* "99999999999999999999"
      <<49, 46, 48>>,   \* "1.0"
      <<49, 101, 51>>,   \* "1e3"
      <<48, 120, 49, 48>>,   \* "0x10"
      <<49, 50, 51, 52, 53>>,   \* "12345"
      <<45, 49, 50, 51, 52, 53>>,   \* "-12345"
      <<49, 48, 48, 48, 48, 48, 48, 48, 48, 48, 48, 48, 48>>,   \* "1000000000000"
      <<45, 49, 48, 48, 48, 48, 48, 48, 48, 48, 48, 48, 48, 48>>   \* "-1000000000000"
    }

InitNumber ==
    /\ \/ \E n \in 0..MaxText : input \in Texts(n)
       \/ input \in EdgeTexts
    /\ op = "init"
    /\ out = NoOut

\* BsonVisitor.visit_map over {"$numberInt": text}
NumberInt ==
    /\ op = "init"
    /\ op' = "$numberInt"
    /\ out' = visit_map(MapDeserializerNew(<< Entry(Str.numberInt, BString(input)) >>,
                                           DefaultOptions)).res
    /\ UNCHANGED input

\* BsonVisitor.visit_map over {"$numberLong": text}
NumberLong ==
    /\ op = "init"
    /\ op' = "$numberLong"
    /\ out' = visit_map(MapDeserializerNew(<< Entry(Str.numberLong, BString(input)) >>,
                                           DefaultOptions)).res
    /\ UNCHANGED input

NextNumber == NumberInt \/ NumberLong

SpecNumber == InitNumber /\ [][NextNumber]_vars

\* the text without its sign
Digits(s) == IF Len(s) > 0 /\ s[1] \in {43, 45} THEN Tail(s) ELSE s

\* a decimal integer: an optional sign, then one or more decimal digits
IsDecimalInteger(s) == AllDigits(Digits(s))

IsNegative(s) == Len(s) > 0 /\ s[1] = 45

\* digits without their leading zeros, one digit at least
RECURSIVE StripZeros(_)
StripZeros(digits) ==
    IF Len(digits) > 1 /\ digits[1] = 48 THEN StripZeros(Tail(digits)) ELSE digits

\* a <= b for digit strings without leading zeros
DigitsLe(a, b) ==
    \/ Len(a) < Len(b)
    \/ /\ Len(a) = Len(b)
       /\ \/ a = b
          \/ \E i \in 1..Len(a) : a[i] < b[i] /\ \A j \in 1..(i - 1) : a[j] = b[j]

\* the magnitudes of the ends of the ranges, as decimal digits
I32MaxText == <<50, 49, 52, 55, 52, 56, 51, 54, 52, 55>>   \* 2^31 - 1
I32MinText == <<50, 49, 52, 55, 52, 56, 51, 54, 52, 56>>   \* 2^31
I64MaxText ==   \* 2^63 - 1
    <<57, 50, 50, 51, 51, 55, 50, 48, 51, 54, 56, 53, 52, 55, 55, 53, 56, 48, 55>>
I64MinText ==   \* 2^63
    <<57, 50, 50, 51, 51, 55, 50, 48, 51, 54, 56, 53, 52, 55, 55, 53, 56, 48, 56>>

\* the value of the decimal integer s lies in the signed range whose ends
\* have the magnitudes max and min
InRange(s, max, min) ==
    /\ IsDecimalInteger(s)
    /\ DigitsLe(StripZeros(Digits(s)), IF IsNegative(s) THEN min ELSE max)

\* the value of digits, added up from zero when positive and taken away from
\* zero when negative
RECURSIVE DecimalValue(_, _, _)
DecimalValue(digits, negative, acc) ==
    IF Len(digits) = 0 THEN acc
    ELSE DecimalValue(Tail(digits), negative,
                      IF negative THEN acc * 10 - (digits[1] - 48)
                      ELSE acc * 10 + (digits[1] - 48))

\* an unsigned number, most significant byte first, divided by ten
RECURSIVE DivTen(_, _)
DivTen(b, rem) ==
    IF Len(b) = 0 THEN [q |-> <<>>, r |-> rem]
    ELSE LET Then(rest) == [q |-> <<(rem * 256 + b[1]) \div 10>> \o rest.q, r |-> rest.r]
         IN  Then(DivTen(Tail(b), (rem * 256 + b[1]) % 10))

\* the decimal digits of an unsigned number, most significant byte first
RECURSIVE DecimalOf(_)
DecimalOf(b) ==
    IF \A i \in 1..Len(b) : b[i] = 0 THEN <<>>
    ELSE LET Then(d) == DecimalOf(d.q) \o <<48 + d.r>>
         IN  Then(DivTen(b, 0))

Reverse(b) == [i \in 1..Len(b) |-> b[Len(b) + 1 - i]]

\* the decimal text of an i64 held as 8 little-endian bytes
I64Text(b) ==
    LET Text(digits) == IF Len(digits) = 0 THEN <<48>> ELSE digits
    IN  IF b[8] >= 128 THEN <<45>> \o Text(DecimalOf(Reverse(NegateLe(b))))
        ELSE Text(DecimalOf(Reverse(b)))

\* the decimal integer s, without a plus sign, leading zeros or minus zero
Canonical(s) ==
    LET Signed(digits) ==
            IF IsNegative(s) /\ digits # <<48>> THEN <<45>> \o digits ELSE digits
    IN  Signed(StripZeros(Digits(s)))

\* C22: "$numberInt" accepts exactly the decimal integers in
\* [-2^31, 2^31 - 1] and gives the Int32 of that value, "$numberLong" exactly
\* those in [-2^63, 2^63 - 1] and gives the Int64 of that value; any other
\* text is an invalid-value error that carries the text and names the width,
\* and no value is wrapped or cut
C22_NumberTextParsed ==
    /\ op = "$numberInt" =>
         IF InRange(input, I32MaxText, I32MinText)
         THEN /\ out.ok
              /\ out.val.t = "Int32"
              /\ out.val.v = DecimalValue(Digits(input), IsNegative(input), 0)
         ELSE /\ ~out.ok
              /\ out.err = InvalidStr(input, "32-bit signed integer as a string")
    /\ op = "$numberLong" =>
         IF InRange(input, I64MaxText, I64MinText)
         THEN /\ out.ok
              /\ out.val.t = "Int64"
              /\ Len(out.val.v) = 8
              /\ I64Text(out.val.v) = Canonical(input)
         ELSE /\ ~out.ok
              /\ out.err = InvalidStr(input, "64-bit signed integer as a string")

\* "2147483648" has been refused as "$numberInt", not wrapped to -2^31
C22_Witness ==
    /\ op = "$numberInt"
    /\ input = I32MinText
    /\ ~out.ok
    /\ out.err.kind = "invalid_value"

\* "-9223372036854775808" has been taken as "$numberLong"
C22_WitnessLong ==
    /\ op = "$numberLong"
    /\ input = <<45>> \o I64MinText
    /\ out = Ok(BInt64(I64_MIN_MAGNITUDE))

----------------------------------------------------------------------------
(* element_type, the as_ accessors and the typed getters over every variant *)

\* as_f64 .. as_javascript_with_scope: the variant each one matches
Accessors ==
    { [name |-> "as_f64", variant |-> "Double"],
      [name |-> "as_str", variant |-> "String"],
      [name |-> "as_array", variant |-> "Array"],
      [name |-> "as_document", variant |-> "Document"],
      [name |-> "as_bool", variant |-> "Boolean"],
      [name |-> "as_i32", variant |-> "Int32"],
      [name |-> "as_i64", variant |-> "Int64"],
      [name |-> "as_object_id", variant |-> "ObjectId"],
      [name |-> "as_binary", variant |-> "Binary"],
      [name |-> "as_regex", variant |-> "RegularExpression"],
      [name |-> "as_datetime", variant |-> "DateTime"],
      [name |-> "as_symbol", variant |-> "Symbol"],
      [name |-> "as_timestamp", variant |-> "Timestamp"],
      [name |-> "as_null", variant |-> "Null"],
      [name |-> "as_db_pointer", variant |-> "DbPointer"],
      [name |-> "as_javascript", variant |-> "JavaScriptCode"],
      [name |-> "as_javascript_with_scope", variant |-> "JavaScriptCodeWithScope"] }

\* arrays of well-formed elements: one element of any kind, alone or after
\* another element, and the index asked for
TypedInputs ==
    { [elements |-> es, bytes |-> WireArray(es), index |-> i]
        : es \in { <<e>> : e \in CanonicalElements }
                 \cup { <<f, e>> : f \in KeyedElements, e \in CanonicalElements },
          i \in 0..1 }

InitTyped == input \in TypedInputs /\ op = "init" /\ out = NoOut

ElementPresent == input.index < Len(input.elements)

\* array.get(index)?.unwrap().element_type()
ElementTypeOf ==
    /\ op = "init"
    /\ ElementPresent
    /\ op' = "element_type"
    /\ out' = element_type(Unwrap(RawArray_get(input.bytes, input.index).val))
    /\ UNCHANGED input

\* array.get(index)?.unwrap().as_f64() and the other accessors
As(a) ==
    /\ op = "init"
    /\ ElementPresent
    /\ op' = a.name
    /\ out' = as_variant(a.variant, Unwrap(RawArray_get(input.bytes, input.index).val))
    /\ UNCHANGED input

NextTyped ==
    \/ ElementTypeOf
    \/ \E a \in Accessors : As(a)
    \/ \E g \in TypedGetters : TypedGet(g)

SpecTyped == InitTyped /\ [][NextTyped]_vars

\* the element type an accessor or a typed getter is named after
NamedType ==
    [ as_f64 |-> "Double", as_str |-> "String", as_array |-> "Array",
      as_document |-> "EmbeddedDocument", as_bool |-> "Boolean", as_i32 |-> "Int32",
      as_i64 |-> "Int64", as_object_id |-> "ObjectId", as_binary |-> "Binary",
      as_regex |-> "RegularExpression", as_datetime |-> "DateTime",
      as_symbol |-> "Symbol", as_timestamp |-> "Timestamp", as_null |-> "Null",
      as_db_pointer |-> "DbPointer", as_javascript |-> "JavaScriptCode",
      as_javascript_with_scope |-> "JavaScriptCodeWithScope",
      get_f64 |-> "Double", get_str |-> "String", get_document |-> "EmbeddedDocument",
      get_array |-> "Array", get_binary |-> "Binary", get_object_id |-> "ObjectId",
      get_bool |-> "Boolean", get_datetime |-> "DateTime",
      get_regex |-> "RegularExpression", get_timestamp |-> "Timestamp",
      get_i32 |-> "Int32", get_i64 |-> "Int64" ]

\* the element asked for, as it is on the wire, and its value
AskedElement == input.elements[input.index + 1]
AskedValue == ElementValue(AskedElement.tag, AskedElement.payload).val

\* the name of the element type of a tag byte
TypeOfTag(tag) == CHOOSE n \in ElementTypeNames : ElementType[n] = tag

\* C23: element_type gives every variant its own element type, the one of
\* the tag byte the element has on the wire; an accessor as_X returns Some,
\* of the value, exactly for the element whose type is X; a typed getter for
\* T on a present element succeeds exactly when the element's type is T and
\* otherwise fails with a wrong-type error naming the element's type as the
\* actual and T as the expected type
C23_TypedAccess ==
    /\ op = "element_type" =>
         /\ out \in ElementTypeNames
         /\ ElementType[out] = AskedElement.tag
         /\ \A e \in CanonicalElements :
                (ElementValue(e.tag, e.payload).val.t = AskedValue.t) <=> (e.tag = ElementType[out])
    /\ op \in { a.name : a \in Accessors } =>
         IF ElementType[NamedType[op]] = AskedElement.tag
         THEN out = Some(AskedValue)
         ELSE out = None
    /\ (op \in { g.name : g \in TypedGetters } /\ ElementPresent) =>
         IF ElementType[NamedType[op]] = AskedElement.tag
         THEN out.ok /\ out.val.t = AskedValue.t /\ out.val = AskedValue
         ELSE /\ ~out.ok
              /\ out.err.cause = "UnexpectedType"
              /\ out.err.actual = TypeOfTag(AskedElement.tag)
              /\ out.err.expected = ElementType[NamedType[op]]

\* get_document has refused an array with a wrong-type error
C23_Witness ==
    /\ op = "get_document"
    /\ ElementPresent
    /\ AskedElement.tag = ElementType.Array
    /\ ~out.ok
    /\ out.err.actual = "Array"
    /\ out.err.expected = ElementType.EmbeddedDocument

----------------------------------------------------------------------------
(* Deserializer::deserialize_option *)

\* Option::<Bson>::deserialize: deserialize_option with serde's visitor for
\* Option, which answers visit_none and visit_unit with None and visit_some
\* with Some of Bson::deserialize over the deserializer it is handed
DeOption(d) ==
    IF ~d.visited THEN Err(d.err)
    ELSE IF d.call \in {"visit_none", "visit_unit"} THEN Ok(None)
    ELSE IF d.call = "visit_some"
         THEN (LET Wrap(r) == IF r.ok THEN Ok(Some(r.val)) ELSE r
               IN  Wrap(BsonVisitor(deserialize_any(d.param))))
    ELSE Err(InvalidType(d, "option"))

HumanReadable == { None, Some(TRUE), Some(FALSE) }

\* every leaf, a document and an array around each nestable leaf, and the
\* documents with a special key
OptionValues ==
    TreeLeaves
    \cup { BDocument(<< Entry(Str.a, v) >>) : v \in NestLeaves }
    \cup { BArray(<< v >>) : v \in NestLeaves }
    \cup DollarDocuments

\* the deserializers Deserializer::new_with_options builds
InitOption ==
    /\ input \in { DeserializerNewWithOptions(v, [human_readable |-> h]) :
                     v \in OptionValues, h \in HumanReadable }
    /\ op = "init"
    /\ out = NoOut

\* de.deserialize_option(visitor): the visitor method called
DeserializeOption ==
    /\ op = "init"
    /\ op' = "deserialize_option"
    /\ out' = deserialize_option(input)
    /\ UNCHANGED input

\* Option::<Bson>::deserialize(de)
DeserializeOptionBson ==
    /\ op = "init"
    /\ op' = "Option::deserialize"
    /\ out' = DeOption(deserialize_option(input))
    /\ UNCHANGED input

NextOption == DeserializeOption \/ DeserializeOptionBson

SpecOption == InitOption /\ [][NextOption]_vars

HeldValue == Unwrap(input.value)

\* C24: deserialize_option calls visit_none for Null; for any other value it
\* calls visit_some with the deserializer as it was, value and options, so
\* that what is deserialized from it is what the original deserializer gives
\* (the value itself when no document in it has a special key); with no value
\* left it fails with the end-of-stream error
C24_OptionDispatch ==
    /\ op = "deserialize_option" =>
         IF HeldValue.t = "Null" THEN out = Visit("visit_none", NoParam)
         ELSE /\ out.visited
              /\ out.call = "visit_some"
              /\ out.param.value = Some(HeldValue)
              /\ out.param.options = input.options
    /\ op = "Option::deserialize" =>
         IF HeldValue.t = "Null" THEN out = Ok(None)
         ELSE /\ out.ok <=> BsonVisitor(deserialize_any(input)).ok
              /\ out.ok => /\ out.val # None
                           /\ IsOkOf(BsonVisitor(deserialize_any(input)), Unwrap(out.val))
              /\ ~HasSpecialKey(HeldValue) => out.ok /\ IsOkOf(Ok(HeldValue), Unwrap(out.val))
    /\ \A h \in HumanReadable :
           deserialize_option([value |-> None, options |-> [human_readable |-> h]])
               = Fail(EndOfStream)

\* an Int64 went through visit_some and came back as Some of itself
C24_Witness ==
    /\ op = "Option::deserialize"
    /\ HeldValue.t = "Int64"
    /\ out = Ok(Some(HeldValue))

----------------------------------------------------------------------------
(* TryFrom<&RawArray> for Vec<Bson> *)

\* a plausible slip: the elements that fail are left out of the list
RECURSIVE VecTryFrom_skipping(_, _)
VecTryFrom_skipping(items, list) ==
    IF Len(items) = 0 THEN Ok(list)
    ELSE IF ~items[1].ok THEN VecTryFrom_skipping(Tail(items), list)
    ELSE LET Push(bson) ==
                 IF ~bson.ok THEN VecTryFrom_skipping(Tail(items), list)
                 ELSE VecTryFrom_skipping(Tail(items), Append(list, bson.val))
         IN  Push(BsonTryFrom(items[1].val))

\* arr.into_iter().map(|result| Bson::try_from(result?)).collect(): the items
\* of the iterator converted in order into list, up to the first error
RECURSIVE VecTryFrom(_, _)
VecTryFrom(items, list) ==
    IF Len(items) = 0 THEN Ok(list)
    ELSE IF ~items[1].ok THEN items[1]
    ELSE LET Push(bson) ==
                 IF ~bson.ok THEN bson
                 ELSE VecTryFrom(Tail(items), Append(list, bson.val))
         IN  Push(BsonTryFrom(items[1].val))

\* a document and an array that are framed well and hold a malformed element
NestedMalformed ==
    { El(ElementType.EmbeddedDocument,
         WireDocument(<< WireElement(ElementType.Boolean, Str.a, <<2>>) >>)),
      El(ElementType.Array,
         WireDocument(<< WireElement(ElementType.Int32, IndexKey(0), Payload.Int32),
                         WireElement(32, IndexKey(1), <<>>) >>)) }

\* the string whose declared length runs past its payload: where it ends
\* depends on the bytes that follow it, so it is left out
Overlong == El(ElementType.String, <<9, 0, 0, 0, 102>>)

VecElements ==
    { El(ElementType.Int32, Payload.Int32), El(ElementType.String, Payload.String),
      El(ElementType.EmbeddedDocument, Payload.Document),
      El(ElementType.Array, Payload.Array),
      El(ElementType.RegularExpression, Payload.RegularExpression) }
    \cup (MalformedElements \ { Overlong }) \cup NestedMalformed

\* the arrays of n elements
VecInputs(n) ==
    { [elements |-> es, bytes |-> WireArray(es)] : es \in [1..n -> VecElements] }

InitVec ==
    /\ \E n \in 0..MaxArrayLen : input \in VecInputs(n)
    /\ op = "init"
    /\ out = NoOut

\* Vec::<Bson>::try_from(&array)
VecTryFromArray ==
    /\ op = "init"
    /\ op' = "Vec::try_from"
    /\ out' = VecTryFrom(RawArrayIter(input.bytes), <<>>)
    /\ UNCHANGED input

NextVec == VecTryFromArray \/ IntoIter

SpecVec == InitVec /\ [][NextVec]_vars

\* the positions of the input whose element is malformed, in itself or in
\* what it holds
BadPositions ==
    { p \in 1..Len(input.elements) :
        input.elements[p] \in MalformedElements \cup NestedMalformed }

\* what the element at position p is by itself: its owned value or its error
Alone(p) ==
    VecTryFrom(RawArrayIter(WireArray(<< input.elements[p] >>)), <<>>)

\* C25: Vec<Bson> from a RawArray is all or nothing: with every element well
\* formed it is Ok of one converted value per element in wire order; with a
\* malformed element it is the error of the first such element, never a list
C25_AllOrNothing ==
    op = "Vec::try_from" =>
        IF BadPositions = {}
        THEN /\ out.ok
             /\ Len(out.val) = Len(input.elements)
             /\ \A p \in 1..Len(out.val) : Alone(p).ok /\ Alone(p).val = << out.val[p] >>
        ELSE /\ ~out.ok
             /\ out.err.kind = "MalformedValue"
             /\ \E p \in BadPositions :
                    /\ \A q \in BadPositions : p <= q
                    /\ ~Alone(p).ok
                    /\ out.err = Alone(p).err

\* a well-formed element comes first and a boolean of 2 second: the
\* conversion is the error, not the list of one
C25_Witness ==
    /\ op = "Vec::try_from"
    /\ input.elements = << El(ElementType.Int32, Payload.Int32),
                           El(ElementType.Boolean, <<2>>) >>
    /\ ~out.ok

----------------------------------------------------------------------------
(* RawBsonRef::append_to on a destination that already holds bytes *)

\* more values of the fixed-width kinds, an empty document and array, and a
\* value of each kind whose width varies
AppendValues ==
    OtherValues
    \cup { BInt32(0), BInt32(-2147483647 - 1), BInt64(<<255, 255, 255, 255, 255, 255, 255, 127>>),
           BDouble(F64_NAN), BDateTime(ZeroBytes(8)),
           BTimestamp(<<255, 255, 255, 255>>, <<0, 0, 0, 0>>),
           [t |-> "Array", v |-> Payload.EmptyDocument],
           [t |-> "Document", v |-> Payload.EmptyDocument],
           BBinary(BinarySubtype.Generic, Str.foo), BBinary(BinarySubtype.BinaryOld, Str.foo),
           BRegularExpression(Str.foo, Str.xi),
           BJavaScriptCodeWithScope(Str.a, Payload.EmptyDocument) }

\* what the destination holds before the call
Destinations == { <<>>, <<0>>, <<16, 97, 0>>, <<255, 1, 2, 3>> }

InitAppend ==
    /\ input \in [value : AppendValues, dest : Destinations]
    /\ op = "init"
    /\ out = NoOut

\* value.append_to(&mut dest): dest afterwards; every arm extends or pushes
AppendToDest ==
    /\ op = "init"
    /\ op' = "append_to"
    /\ out' = input.dest \o append_to(input.value)
    /\ UNCHANGED input

\* dest.clear(); value.append_to(&mut dest)
AppendToCleared ==
    /\ op = "init"
    /\ op' = "clear, append_to"
    /\ out' = append_to(input.value)
    /\ UNCHANGED input

NextAppend == AppendToDest \/ AppendToCleared

SpecAppend == InitAppend /\ [][NextAppend]_vars

\* the payload size of the fixed-width kinds on the wire
FixedWidth ==
    [ Null |-> 0, Undefined |-> 0, MinKey |-> 0, MaxKey |-> 0, Boolean |-> 1, Int32 |-> 4,
      Double |-> 8, Int64 |-> 8, DateTime |-> 8, Timestamp |-> 8, ObjectId |-> 12,
      Decimal128 |-> 16 ]

\* the bytes the call has added to the destination
Appended == SubSeq(out, Len(input.dest) + 1, Len(out))

\* C26: append_to leaves the bytes already in the destination as they are
\* and adds the payload of the value alone, no tag and no key: as many bytes
\* as the wire format gives a fixed-width kind (a boolean is the byte 0 or 1),
\* the bytes of a raw document or array as they are, and in every case bytes
\* that read back as the value
C26_AppendOnly ==
    op = "append_to" =>
        /\ Len(out) >= Len(input.dest)
        /\ SubSeq(out, 1, Len(input.dest)) = input.dest
        /\ input.value.t \in DOMAIN FixedWidth =>
               Len(Appended) = FixedWidth[input.value.t]
        /\ input.value.t = "Boolean" => Appended = <<IF input.value.v THEN 1 ELSE 0>>
        /\ input.value.t \in {"Document", "Array"} => Appended = input.value.v
        /\ IsOkOf(ElementValue(ElementType[element_type(input.value)], Appended),
                  input.value)

\* a timestamp has been appended behind three bytes: eight more bytes, the
\* increment first
C26_Witness ==
    /\ op = "append_to"
    /\ input.dest = <<16, 97, 0>>
    /\ input.value = BTimestamp(<<1, 0, 0, 0>>, <<2, 0, 0, 0>>)
    /\ out = <<16, 97, 0, 2, 0, 0, 0, 1, 0, 0, 0>>

----------------------------------------------------------------------------
(* A Deserializer from its construction through the calls made on it *)

\* the deserializers an access handed to the visitor builds: one for each
\* element of a SeqDeserializer, one for each key and each value of a
\* MapDeserializer, one for the variant name and one for the payload of an
\* EnumDeserializer
CreatedDeserializers(d) ==
    IF ~d.visited THEN {}
    ELSE CASE d.call = "visit_seq" ->
                { DeserializerNewWithOptions(d.param.iter[i], d.param.options) :
                    i \in 1..Len(d.param.iter) }
           [] d.call = "visit_map" /\ d.param.ma = "MapDeserializer" ->
                { DeserializerNewWithOptions(BString(d.param.iter[i].k), d.param.options) :
                    i \in 1..Len(d.param.iter) }
                \cup { DeserializerNewWithOptions(d.param.iter[i].v, d.param.options) :
                         i \in 1..Len(d.param.iter) }
           [] d.call = "visit_enum" ->
                { DeserializerNewWithOptions(d.param.val, d.param.deserializer.options) }
                \cup { DeserializerNewWithOptions(v, d.param.deserializer.options) :
                         v \in { Unwrap(x) : x \in { d.param.deserializer.val } \ { None } } }
           [] OTHER -> {}

\* the visitor method is handed the deserializer itself
Redispatch(d) == d.visited /\ d.call \in {"visit_some", "visit_newtype_struct"}

\* the values Deserializer::new is called with
ChainValues ==
    Values \cup { BArray(<<>>), BUndefined, BBinary(BinarySubtype.Md5, Str.foo),
                  BArray(<< BNull, BDocument(<< Entry(Str.a, BArray(<< BInt32(1) >>)) >>) >>) }

\* Deserializer::new(value)
InitChain ==
    /\ input \in ChainValues
    /\ op = "new"
    /\ out = [de |-> Some(DeserializerNew(input)), last |-> Visit("new", NoParam),
              calls |-> 0, eos |-> FALSE, handed |-> 0]

\* what a call leaves: the deserializer when the visitor got it back, the
\* dispatch, and the counts
AfterCall(d) ==
    [de |-> IF Redispatch(d) THEN Some(d.param) ELSE None,
     last |-> d,
     calls |-> out.calls + 1,
     eos |-> out.eos \/ (~d.visited /\ d.err.kind = "end_of_stream"),
     handed |-> out.handed + (IF d.visited /\ ~Redispatch(d) THEN 1 ELSE 0)]

\* a deserialize_ method can only be called on a deserializer the caller
\* holds: every method takes self by value
Holding == out.de # None /\ out.calls < MaxCalls

EnterAny ==
    /\ Holding
    /\ op' = "deserialize_any"
    /\ out' = AfterCall(deserialize_any(Unwrap(out.de)))
    /\ UNCHANGED input

EnterBytes ==
    /\ Holding
    /\ op' = "deserialize_bytes"
    /\ out' = AfterCall(deserialize_bytes(Unwrap(out.de)))
    /\ UNCHANGED input

EnterOption ==
    /\ Holding
    /\ op' = "deserialize_option"
    /\ out' = AfterCall(deserialize_option(Unwrap(out.de)))
    /\ UNCHANGED input

EnterEnum ==
    /\ Holding
    /\ op' = "deserialize_enum"
    /\ out' = AfterCall(deserialize_enum(Unwrap(out.de)))
    /\ UNCHANGED input

EnterNewtypeStruct(name) ==
    /\ Holding
    /\ op' = "deserialize_newtype_struct"
    /\ out' = AfterCall(deserialize_newtype_struct(Unwrap(out.de), name))
    /\ UNCHANGED input

\* the visitor asks the access it was handed for a key, a value, an element,
\* the variant or its payload: a new Deserializer is built
Descend ==
    /\ out.de = None
    /\ \E de \in CreatedDeserializers(out.last) :
           out' = [de |-> Some(de), last |-> Visit("new", NoParam), calls |-> out.calls,
                   eos |-> out.eos, handed |-> 0]
    /\ op' = "new_with_options"
    /\ UNCHANGED input

NextChain ==
    \/ EnterAny
    \/ EnterBytes
    \/ EnterOption
    \/ EnterEnum
    \/ \E name \in NewtypeNames : EnterNewtypeStruct(name)
    \/ Descend

SpecChain == InitChain /\ [][NextChain]_vars

\* C27: a Deserializer made by Deserializer::new, or made by an access for a
\* key, a value, an element or an enum payload, holds its value whenever a
\* deserialize_ method can be entered, also after visit_some and
\* visit_newtype_struct have handed it back; no call ends in the
\* end-of-stream error, and its value goes to a visitor at most once
C27_ValuePresent ==
    /\ out.de # None => Unwrap(out.de).value # None
    /\ ~out.eos
    /\ out.handed <= 1

\* deserialize_option, then deserialize_newtype_struct, then deserialize_any
\* on the same deserializer: the value arrived at the third call
C27_Witness ==
    /\ op = "deserialize_any"
    /\ out.calls = 3
    /\ input = BInt32(1)
    /\ out.last = Visit("visit_i32", 1)
    /\ out.handed = 1

----------------------------------------------------------------------------
(* MapDeserializer: which value follows which key *)

\* how many keys the calls before position j of the log have yielded
KeysBefore(j) == Cardinality({ i \in Yields(out.log, "next_key_seed") : i < j })

\* what the seed receives for the value v
DispatchOf(v) == deserialize_any(DeserializerNewWithOptions(v, DefaultOptions))

\* C28: next_key_seed yields the keys of the document in insertion order and
\* never fails, None once they are all yielded; next_value_seed yields the
\* value of the entry whose key was yielded last, and no value twice; a key
\* whose value was not asked for is passed over without an error
C28_ValueOfLastKey ==
    input.kind = "map" =>
        /\ \A j \in 1..Len(out.log) :
               out.log[j].call = "next_key_seed" =>
                   IF KeysBefore(j) < Len(input.items)
                   THEN out.log[j].ret = Some(input.items[KeysBefore(j) + 1].k)
                   ELSE out.log[j].ret = None
        /\ \A j \in Yields(out.log, "next_value_seed") :
               /\ KeysBefore(j) >= 1
               /\ out.log[j].ret = Some(DispatchOf(input.items[KeysBefore(j)].v))
               /\ \A i \in Yields(out.log, "next_value_seed") :
                      i # j => KeysBefore(i) # KeysBefore(j)

\* two keys were asked for in a row and the value that followed is the
\* second entry's, the first entry's value being a different one
C28_Witness ==
    /\ op = "next_value_seed"
    /\ Len(out.log) = 3
    /\ out.log[1].call = "next_key_seed" /\ out.log[2].call = "next_key_seed"
    /\ Len(input.items) = 2
    /\ input.items[1].v # input.items[2].v
    /\ out.log[2].ret = Some(input.items[2].k)
    /\ out.log[3].ret = Some(DispatchOf(input.items[2].v))

----------------------------------------------------------------------------
(* An array as a value and as the payload of a tuple variant *)

SeqValues == AccessValues \cup { BArray(<<>>) }

\* the arrays of n elements, each as it is and as the payload of the variant
\* "a"; one payload that is not an array
SeqInputs(n) ==
    { BArray(v) : v \in [1..n -> SeqValues] }
    \cup { BDocument(<< Entry(Str.a, BArray(v)) >>) : v \in [1..n -> SeqValues] }
    \cup { BDocument(<< Entry(Str.a, BInt32(1)) >>) }

InitSeq ==
    /\ \E n \in 0..MaxEntries : input \in SeqInputs(n)
    /\ op = "init"
    /\ out = NoOut

NextSeq == DeserializeAny \/ DeserializeEnum \/ VariantSeed \/ TupleVariant

SpecSeq == InitSeq /\ [][NextSeq]_vars

\* the array that is the payload of the variant of the input
PayloadArray == input.v[1].v

\* C29: deserialize_any on an array calls visit_seq with an access to its
\* elements whatever its length, the empty array included; tuple_variant on
\* an array payload calls visit_unit when the array is empty and visit_seq
\* only when it has an element
C29_EmptySequences ==
    /\ (op = "deserialize_any" /\ input.t = "Array") =>
           out = Visit("visit_seq", [iter |-> input.v, len |-> Len(input.v),
                                     options |-> DefaultOptions])
    /\ (op = "tuple_variant" /\ PayloadArray.t = "Array") =>
           IF Len(PayloadArray.v) = 0 THEN out = Visit("visit_unit", NoParam)
           ELSE out = Visit("visit_seq", [iter |-> PayloadArray.v,
                                          len |-> Len(PayloadArray.v),
                                          options |-> DefaultOptions])

\* the empty array as the payload of a tuple variant went to visit_unit
C29_Witness ==
    /\ op = "tuple_variant"
    /\ input = BDocument(<< Entry(Str.a, BArray(<<>>)) >>)
    /\ out = Visit("visit_unit", NoParam)

\* the empty array as a value went to visit_seq
C29_WitnessAny ==
    /\ op = "deserialize_any"
    /\ input = BArray(<<>>)
    /\ out.visited
    /\ out.call = "visit_seq"

----------------------------------------------------------------------------
(* The len counter of SeqDeserializer and MapDeserializer *)

\* the method of the access that moves its iterator
Advancing == IF input.kind = "map" THEN "next_key_seed" ELSE "next_element_seed"

\* how many entries the calls so far have not yielded
NotYielded == Len(input.items) - Cardinality(Yields(out.log, Advancing))

\* the next call of the advancing method would return None
NextIsNone ==
    IF input.kind = "map" THEN next_key_seed(out.m).key = Ok(None)
    ELSE next_element_seed(out.m).elem = None

\* C30: len is the number of entries the iterator has not yielded: the
\* length of the container at construction, one less after each call that
\* yields an entry, the same after a call that finds the iterator exhausted
\* and after next_value_seed, never below zero, and zero exactly when the
\* next call returns None; size_hint is that number
C30_LenIsRemaining ==
    /\ out.m.len = NotYielded
    /\ out.m.len = Len(out.m.iter)
    /\ out.m.len >= 0
    /\ size_hint(out.m) = Some(NotYielded)
    /\ op = "new" => out.m.len = Len(input.items)
    /\ op # "new" =>
         out.m.len = Unwrap(out.prev).len
                     - (IF LastCall.call = Advancing /\ LastCall.ret # None THEN 1 ELSE 0)
    /\ (out.m.len = 0) <=> NextIsNone

\* an array of two elements after three calls: two elements yielded, then
\* None with the counter staying at zero
C30_Witness ==
    /\ op = "next_element_seed"
    /\ Len(input.items) = 2
    /\ Len(out.log) = 3
    /\ out.log[2].ret # None
    /\ out.log[3].ret = None
    /\ out.m.len = 0
    /\ Unwrap(out.prev).len = 0

====
